---------------------------- MODULE Spec2Model ----------------------------
(***************************************************************************)
(* Skill Learning Orchestrator of Acontext: the skill-agent consumer       *)
(* (process_skill_agent), the agent loop (skill_learner_agent) and the     *)
(* Redis primitives they use (lock, pending list), for one project and one *)
(* learning space.  A worker is one in-flight handler invocation.          *)
(***************************************************************************)
EXTENDS Integers, Sequences, FiniteSets, TLC

\* ------------------------------------------------------------ bounds
\* Number of worker crashes / consumer timeouts explored in one behaviour.
MaxFaults == 1
\* skill_learn_lock_ttl_seconds, counted in clock ticks.
LockTtl == 2
\* skill_learn_agent_max_iterations
MaxIterations == 1
\* skill_learn_extra_iterations_per_context_batch
ExtraIters == 1
\* skill_learn_max_contexts_per_agent_run
MaxContexts == 2
\* Longest pending list and largest max_read the primitives are driven with.
MaxQueue == 3
MaxRead == 2
\* session_message_processing_timeout_seconds, the TTL used when ttl_seconds
\* is None, in clock ticks.
DefaultTtl == 3
\* Largest max_iterations argument skill_learner_agent is called with when it
\* is driven on its own.
MaxIterArg == 2

\* Handler invocations that can be in flight at once.
Workers == {1, 2}
\* The distilled contexts the distillation consumer publishes.
Ctx == {1, 2}
NoCtx == 0

\* item.session_id / body.session_id: every context carries its session's id.
SessionOf(c) == c

Min(a, b) == IF a < b THEN a ELSE b
Max(a, b) == IF a > b THEN a ELSE b

\* ------------------------------------------------------------ Redis commands
\* Redis list indices are 0-based; a negative index counts from the tail.
NormIdx(i, n) == IF i < 0 THEN n + i ELSE i

\* LRANGE key start stop
LRANGE(l, start, stop) ==
    LET n == Len(l)
        s == Max(NormIdx(start, n), 0)
        e == Min(NormIdx(stop, n), n - 1)
    IN  IF s > e THEN <<>> ELSE SubSeq(l, s + 1, e + 1)

\* LTRIM key start stop: the list keeps exactly the range LRANGE would return.
LTRIM(l, start, stop) == LRANGE(l, start, stop)

\* DEL key on a list key: non-existence is the empty list.
DEL(l) == <<>>

\* LPUSH key value: the value goes to the head of the list.
LPUSH(l, v) == <<v>> \o l

\* RPUSH key value
RPUSH(l, v) == Append(l, v)

\* max_read is an optional int: <<>> is None, <<m>> is the int m.
NoneMax == <<>>
SomeMax(m) == <<m>>

\* A drain without the early return: max_read <= 0 goes to the pipeline.
DrainNeverSkipped(mr) == FALSE

\* drain_skill_learn_pending: the early return for max_read <= 0.
DrainSkipped(mr) == mr # NoneMax /\ mr[1] <= 0

\* A read whose stop index is max_read instead of max_read - 1.
DrainReadStopAtMax(l, mr) ==
    IF mr = NoneMax THEN LRANGE(l, 0, -1) ELSE LRANGE(l, 0, mr[1])

\* drain_skill_learn_pending: the first command of the pipeline (the read).
DrainRead(l, mr) ==
    IF mr = NoneMax THEN LRANGE(l, 0, -1) ELSE LRANGE(l, 0, mr[1] - 1)

\* drain_skill_learn_pending: the second command of the pipeline (the removal).
DrainRemove(l, mr) ==
    IF mr = NoneMax THEN DEL(l) ELSE LTRIM(l, mr[1], -1)

\* A pipeline without MULTI/EXEC: other clients' commands can run between its
\* commands.
PipelineNoTransaction == FALSE

\* client.pipeline(transaction=True): the commands run as one MULTI/EXEC.
PipelineTransaction == TRUE

\* ------------------------------------------------------------ state
VARIABLES
    lock,            \* remaining TTL of lock.{P}.skill_learn.{L}; 0 = key absent
    pendq,           \* skill_learn_pending.{P}.{L}, a Redis list
    bus,             \* messages on routing key learning.skill.agent: ctx -> copies
    status,          \* session status projection
    published,       \* contexts the distillation consumer has published
    pc,              \* position of each handler invocation
    live,            \* body of the delivery a worker is handling
    drained,         \* drained_items of the run
    iter,            \* already_iterations
    maxIter,         \* max_iterations (grows on mid-run injection)
    justFinish,      \* just_finish
    pushedBack,      \* items the failure path has re-pushed so far
    initIter,        \* the max_iterations argument the run was called with
    llmCalls,        \* llm_complete calls the run has made
    batches,         \* mid-run drains of the run that returned items
    resp,            \* llm_return.tool_calls: the tool names, in the LM's order
    disp,            \* tool calls of resp the for loop is done with
    toolResponse,    \* tool_response: the tool_call_id of each tool message
    invoked,         \* tool_call_ids whose handler was awaited in this iteration
    hasReportedThinking, \* has_reported_thinking
    ctxThinking,     \* ctx.has_reported_thinking
    errMsg,          \* str(e) of the exception the except clause caught
    lockKey,         \* a lock_key was passed to the run
    lockTtl,         \* lock_ttl_seconds passed to the run
    renewals,        \* renew_redis_lock calls the run has made
    task,            \* where process_skill_distillation is with each task
    shouldRetrigger, \* should_retrigger
    remaining,       \* result of the retrigger drain
    pipeRead,        \* result of a pipeline's read whose removal has not run yet
    holds,           \* the worker is between its successful acquire and its release
    faults,          \* crashes and timeouts so far
    succ,            \* ctx -> number of successful runs that had it as input
    writes,          \* status values written to the live session in this delivery
    leaked,          \* entries drains have removed without returning them
    touched,         \* another process changed the list since this run's entry drain
    robbed,          \* another process drained items since this run's first re-push
    ret              \* the last call of a lock primitive made on its own, and its result

runObs == <<initIter, llmCalls, batches>>
dispVars == <<resp, disp, toolResponse, invoked, hasReportedThinking,
              ctxThinking, errMsg>>
lockArgs == <<lockKey, lockTtl>>
agentLocals == <<drained, iter, maxIter, justFinish, pushedBack, runObs,
                 dispVars, lockArgs, renewals>>
distVars == <<published, task>>
consLocals == <<shouldRetrigger, remaining, writes>>
flags == <<touched, robbed>>
kv == <<lock, pendq, leaked>>
wvars == <<pc, live, holds, pipeRead, agentLocals, consLocals, flags>>
vars == <<kv, bus, status, distVars, faults, succ, ret, wvars>>

\* Positions inside skill_learner_agent.
RunPcs == {"entry_drain", "llm", "mid_drain", "renew", "repush", "ret_fail", "ret_ok"}


\* ------------------------------------------------------------ helpers
\* ttl_seconds is an optional int: <<>> is None, <<t>> is the int t.
NoneTtl == <<>>
SomeTtl(t) == <<t>>

\* check_redis_lock_or_set: the ex argument of the SET.
LockEx(ttl) == IF ttl = NoneTtl THEN DefaultTtl ELSE ttl[1]

\* A SET NX without EX: the key stays until it is deleted (TTL -1).
SetNXNoExpiry(l, ttl) == IF l = 0 THEN -1 ELSE l

\* A SET EX without NX: the key is written whether it exists or not.
SetEXOnly(l, ttl) == LockEx(ttl)

\* SET key "1" NX EX ex: the new TTL of the key.
SetNX(l, ttl) == IF l = 0 THEN LockEx(ttl) ELSE l

\* A SET EX without XX: the key is written whether it exists or not.
SetEXNoXX(l, ttl) == ttl

\* SET key "1" XX EX ttl: the new TTL of the key.
SetXX(l, ttl) == IF l # 0 THEN ttl ELSE 0

\* The record of a call: primitive, client, its optional int argument
\* (ttl_seconds or max_read), result, and a bit that flips with every call.
NoCall == [op |-> "none", by |-> 0, arg |-> NoneTtl, ok |-> FALSE, seq |-> 0]
Call(op, w, arg, ok) ==
    [op |-> op, by |-> w, arg |-> arg, ok |-> ok, seq |-> 1 - ret.seq]

\* LS.update_session_status(db_session, sid, value)
UpdateSessionStatus(st, sid, value) == [st EXCEPT ![sid] = value]

\* The session ids of a list of contexts, in order.
SessionIds(items) == [i \in 1 .. Len(items) |-> SessionOf(items[i])]

Occurs(s, x) == Cardinality({i \in 1 .. Len(s) : s[i] = x})
Range(s) == {s[i] : i \in 1 .. Len(s)}

\* list(set(ids)): every id once.
RECURSIVE Dedup(_)
Dedup(s) ==
    IF s = <<>> THEN <<>>
    ELSE LET r == Dedup(SubSeq(s, 1, Len(s) - 1))
         IN  IF s[Len(s)] \in Range(r) THEN r ELSE Append(r, s[Len(s)])

\* all_session_ids without the set(): the live id and every drained id.
AllSessionIdsNoSet(liveSid, drainedIds) == <<liveSid>> \o drainedIds

\* all_session_ids of process_skill_agent on success.
AllSessionIds(liveSid, drainedIds) == Dedup(<<liveSid>> \o drainedIds)

\* The items a removal takes off the head of list l.
Removed(l, mr) == SubSeq(l, 1, Len(l) - Len(DrainRemove(l, mr)))

\* How many of the removed entries the drain's result does not hold.
Lost(removed, returned) ==
    LET S == {i \in 1 .. Len(removed) :
            Cardinality({j \in 1 .. i : removed[j] = removed[i]})
                > Occurs(returned, removed[i])}
    IN  Cardinality(S)

\* A pipeline runs its removal in the same step as its read when it is a
\* transaction; otherwise the read's result waits in pipeRead for the removal.
DrainReady(w) == PipelineTransaction \/ pipeRead[w] # <<>>
DrainItems(w, mr) ==
    IF PipelineTransaction THEN DrainRead(pendq, mr) ELSE pipeRead[w][1]

\* The read of a pipeline that is not a transaction, as a step of its own.
DrainReadOnly(w, mr) ==
    /\ pipeRead' = [pipeRead EXCEPT ![w] = <<DrainRead(pendq, mr), mr>>]
    /\ UNCHANGED <<kv, bus, status, distVars, faults, succ, ret,
                   pc, live, holds, agentLocals, consLocals, flags>>

\* Worker w changes the list: every other run past its entry drain sees it.
TouchedBy(w) ==
    [v \in Workers |->
        touched[v] \/ (v # w /\ pc[v] \in RunPcs \ {"entry_drain"})]

\* Worker w removes items: every other run that is re-pushing sees it.
RobbedBy(w, items) ==
    [v \in Workers |->
        robbed[v] \/ (v # w /\ items # <<>> /\ pushedBack[v] # <<>>
                        /\ pc[v] \in {"repush", "ret_fail"})]

Bump(f, x) == [f EXCEPT ![x] = @ + 1]

\* ------------------------------------------------------------ producers
\* process_skill_distillation: mark the session running, distill, publish.
Distill(c) ==
    /\ c \notin published
    /\ published' = published \cup {c}
    /\ task' = [task EXCEPT ![c] = "published"]
    /\ status' = UpdateSessionStatus(status, SessionOf(c), "running")
    /\ bus' = Bump(bus, c)
    /\ UNCHANGED <<kv, faults, succ, ret, wvars>>

\* The Redis key's TTL runs down; at 0 the key is gone.
Tick ==
    /\ lock > 0
    /\ lock' = lock - 1
    /\ UNCHANGED <<pendq, leaked, bus, status, distVars, faults, succ, ret, wvars>>

\* ------------------------------------------------------------ consumer
\* The bus hands a message to an idle handler (idle handlers are alike: the
\* first one takes it), where it stays unacked in live[w]; process_skill_agent
\* runs check_redis_lock_or_set and branches.
Deliver(w, c) ==
    /\ pc[w] = "idle"
    /\ \A v \in Workers : v < w => pc[v] # "idle"
    /\ bus[c] > 0
    /\ bus' = [bus EXCEPT ![c] = @ - 1]
    /\ live' = [live EXCEPT ![w] = c]
    /\ lock' = SetNX(lock, SomeTtl(LockTtl))
    /\ IF lock = 0
       THEN /\ holds' = [holds EXCEPT ![w] = TRUE]
            /\ maxIter' = [maxIter EXCEPT ![w] = MaxIterations]
            /\ initIter' = [initIter EXCEPT ![w] = MaxIterations]
            /\ lockKey' = [lockKey EXCEPT ![w] = TRUE]
            /\ lockTtl' = [lockTtl EXCEPT ![w] = SomeTtl(LockTtl)]
            /\ pc' = [pc EXCEPT ![w] = "entry_drain"]
       ELSE /\ pc' = [pc EXCEPT ![w] = "park_push"]
            /\ UNCHANGED <<holds, maxIter, initIter, lockArgs>>
    /\ UNCHANGED <<pendq, leaked, status, distVars, faults, succ, ret,
                   pipeRead, drained, iter, justFinish, pushedBack, llmCalls,
                   batches, dispVars, renewals, consLocals, flags>>

\* A denied branch that pushes the body at the head of the list (LPUSH).
ParkPushHead(w) ==
    /\ pc[w] = "park_push"
    /\ pendq' = <<live[w]>> \o pendq
    /\ touched' = TouchedBy(w)
    /\ pc' = [pc EXCEPT ![w] = "park_status"]
    /\ UNCHANGED <<lock, leaked, bus, status, distVars, faults, succ, ret,
                   live, holds, pipeRead, agentLocals, consLocals, robbed>>

\* Lock denied: push the body to the pending list.
ParkPush(w) ==
    /\ pc[w] = "park_push"
    /\ pendq' = RPUSH(pendq, live[w])
    /\ touched' = TouchedBy(w)
    /\ pc' = [pc EXCEPT ![w] = "park_status"]
    /\ UNCHANGED <<lock, leaked, bus, status, distVars, faults, succ, ret,
                   live, holds, pipeRead, agentLocals, consLocals, robbed>>

\* Lock denied: mark the live session queued and return.
ParkStatus(w) ==
    /\ pc[w] = "park_status"
    /\ status' = UpdateSessionStatus(status, SessionOf(live[w]), "queued")
    /\ writes' = [writes EXCEPT ![w] = Append(@, "queued")]
    /\ pc' = [pc EXCEPT ![w] = "done"]
    /\ UNCHANGED <<kv, bus, distVars, faults, succ, ret,
                   live, holds, pipeRead, agentLocals, shouldRetrigger,
                   remaining, flags>>

Init ==
    /\ lock = 0
    /\ pendq = <<>>
    /\ bus = [c \in Ctx |-> 0]
    /\ status = [c \in Ctx |-> "pending"]
    /\ published = {}
    /\ pc = [w \in Workers |-> "idle"]
    /\ live = [w \in Workers |-> NoCtx]
    /\ drained = [w \in Workers |-> <<>>]
    /\ iter = [w \in Workers |-> 0]
    /\ maxIter = [w \in Workers |-> 0]
    /\ justFinish = [w \in Workers |-> FALSE]
    /\ pushedBack = [w \in Workers |-> <<>>]
    /\ initIter = [w \in Workers |-> 0]
    /\ llmCalls = [w \in Workers |-> 0]
    /\ batches = [w \in Workers |-> 0]
    /\ resp = [w \in Workers |-> <<>>]
    /\ disp = [w \in Workers |-> 0]
    /\ toolResponse = [w \in Workers |-> <<>>]
    /\ invoked = [w \in Workers |-> <<>>]
    /\ hasReportedThinking = [w \in Workers |-> FALSE]
    /\ ctxThinking = [w \in Workers |-> FALSE]
    /\ errMsg = [w \in Workers |-> <<>>]
    /\ lockKey = [w \in Workers |-> FALSE]
    /\ lockTtl = [w \in Workers |-> NoneTtl]
    /\ renewals = [w \in Workers |-> 0]
    /\ task = [c \in Ctx |-> "new"]
    /\ shouldRetrigger = [w \in Workers |-> FALSE]
    /\ remaining = [w \in Workers |-> <<>>]
    /\ pipeRead = [w \in Workers |-> <<>>]
    /\ holds = [w \in Workers |-> FALSE]
    /\ faults = 0
    /\ leaked = 0
    /\ ret = NoCall
    /\ succ = [c \in Ctx |-> 0]
    /\ writes = [w \in Workers |-> <<>>]
    /\ touched = [w \in Workers |-> FALSE]
    /\ robbed = [w \in Workers |-> FALSE]


\* ------------------------------------------------------------ agent loop
\* skill_learner_agent: the drain on entry, then the loop's first test.
EntryDrain(w) ==
    /\ pc[w] = "entry_drain"
    /\ LET mr == SomeMax(MaxContexts) IN
       IF ~DrainReady(w) THEN DrainReadOnly(w, mr)
       ELSE /\ pendq' = DrainRemove(pendq, mr)
            /\ pipeRead' = [pipeRead EXCEPT ![w] = <<>>]
            /\ leaked' = leaked + Lost(Removed(pendq, mr), DrainItems(w, mr))
            /\ drained' = [drained EXCEPT ![w] = DrainItems(w, mr)]
            /\ iter' = [iter EXCEPT ![w] = 0]
            /\ justFinish' = [justFinish EXCEPT ![w] = FALSE]
            /\ pushedBack' = [pushedBack EXCEPT ![w] = <<>>]
            /\ llmCalls' = [llmCalls EXCEPT ![w] = 0]
            /\ batches' = [batches EXCEPT ![w] = 0]
            /\ touched' = IF Removed(pendq, mr) # <<>>
                          THEN [TouchedBy(w) EXCEPT ![w] = FALSE]
                          ELSE [touched EXCEPT ![w] = FALSE]
            /\ robbed' = [RobbedBy(w, Removed(pendq, mr)) EXCEPT ![w] = FALSE]
            /\ pc' = [pc EXCEPT ![w] = IF 0 < maxIter[w] THEN "llm" ELSE "ret_ok"]
            /\ UNCHANGED <<lock, bus, status, distVars, faults, succ, ret,
                           live, holds, maxIter, initIter, dispVars, lockArgs, renewals, consLocals>>

\* An except clause that returns the rejection without re-pushing.
LLMFailNoRepush(w) ==
    /\ pc[w] = "llm"
    /\ pc' = [pc EXCEPT ![w] = "ret_fail"]
    /\ llmCalls' = [llmCalls EXCEPT ![w] = @ + 1]
    /\ UNCHANGED <<kv, bus, status, distVars, faults, succ, ret,
                   live, holds, pipeRead, drained, iter, maxIter, justFinish,
                   pushedBack, initIter, batches, dispVars, lockArgs, renewals, consLocals, flags>>

\* A loop that answers an LM error with another llm_complete call.
LLMFailRetries(w) ==
    /\ pc[w] = "llm"
    /\ llmCalls' = [llmCalls EXCEPT ![w] = @ + 1]
    /\ llmCalls[w] <= maxIter[w]
    /\ UNCHANGED <<kv, bus, status, distVars, faults, succ, ret,
                   pc, live, holds, pipeRead, drained, iter, maxIter, justFinish,
                   pushedBack, initIter, batches, dispVars, lockArgs, renewals, consLocals, flags>>

\* llm_complete returns an error, or a tool is unknown, rejects or raises:
\* RuntimeError, caught by the except clause.
LLMFail(w) ==
    /\ pc[w] = "llm"
    /\ pc' = [pc EXCEPT ![w] = IF drained[w] = <<>> THEN "ret_fail" ELSE "repush"]
    /\ llmCalls' = [llmCalls EXCEPT ![w] = @ + 1]
    /\ UNCHANGED <<kv, bus, status, distVars, faults, succ, ret,
                   live, holds, pipeRead, drained, iter, maxIter, justFinish,
                   pushedBack, initIter, batches, dispVars, lockArgs, renewals, consLocals, flags>>

\* A break that drains the pending list on its way out.
LLMStopDrains(w) ==
    /\ pc[w] = "llm"
    /\ pc' = [pc EXCEPT ![w] = "ret_ok"]
    /\ llmCalls' = [llmCalls EXCEPT ![w] = @ + 1]
    /\ pendq' = DrainRemove(pendq, NoneMax)
    /\ drained' = [drained EXCEPT ![w] = @ \o DrainRead(pendq, NoneMax)]
    /\ UNCHANGED <<lock, leaked, bus, status, distVars, faults, succ, ret,
                   live, holds, pipeRead, iter, maxIter, justFinish,
                   pushedBack, initIter, batches, dispVars, lockArgs,
                   renewals, consLocals, flags>>

\* The response has no tool calls: break.
LLMStop(w) ==
    /\ pc[w] = "llm"
    /\ pc' = [pc EXCEPT ![w] = "ret_ok"]
    /\ llmCalls' = [llmCalls EXCEPT ![w] = @ + 1]
    /\ UNCHANGED <<kv, bus, status, distVars, faults, succ, ret,
                   live, holds, pipeRead, drained, iter, maxIter, justFinish,
                   pushedBack, initIter, batches, dispVars, lockArgs, renewals, consLocals, flags>>

\* The response has tool calls and they all succeed; fin: finish is among them.
LLMTools(w, fin) ==
    /\ pc[w] = "llm"
    /\ justFinish' = [justFinish EXCEPT ![w] = fin]
    /\ pc' = [pc EXCEPT ![w] = "mid_drain"]
    /\ llmCalls' = [llmCalls EXCEPT ![w] = @ + 1]
    /\ UNCHANGED <<kv, bus, status, distVars, faults, succ, ret,
                   live, holds, pipeRead, drained, iter, maxIter, pushedBack,
                   initIter, batches, dispVars, lockArgs, renewals, consLocals, flags>>

\* An injection that extends the budget by extra_iters for every new context.
AfterMidDrainPerItem(w, new) ==
    /\ drained' = [drained EXCEPT ![w] = @ \o new]
    /\ maxIter' = [maxIter EXCEPT ![w] = @ + ExtraIters * Len(new)]
    /\ justFinish' = [justFinish EXCEPT ![w] = IF new # <<>> THEN FALSE ELSE @]
    /\ batches' = [batches EXCEPT ![w] = IF new # <<>> THEN @ + 1 ELSE @]
    /\ UNCHANGED <<initIter, llmCalls>>
    /\ IF justFinish'[w]
       THEN /\ pc' = [pc EXCEPT ![w] = "ret_ok"]
            /\ UNCHANGED iter
       ELSE /\ pc' = [pc EXCEPT ![w] = "renew"]
            /\ iter' = [iter EXCEPT ![w] = @ + 1]

\* An injection that leaves just_finish as the tool calls set it.
AfterMidDrainKeepsFinish(w, new) ==
    /\ drained' = [drained EXCEPT ![w] = @ \o new]
    /\ maxIter' = [maxIter EXCEPT ![w] = IF new # <<>> THEN @ + ExtraIters ELSE @]
    /\ batches' = [batches EXCEPT ![w] = IF new # <<>> THEN @ + 1 ELSE @]
    /\ UNCHANGED <<initIter, llmCalls, justFinish>>
    /\ IF justFinish[w]
       THEN /\ pc' = [pc EXCEPT ![w] = "ret_ok"]
            /\ UNCHANGED iter
       ELSE /\ pc' = [pc EXCEPT ![w] = "renew"]
            /\ iter' = [iter EXCEPT ![w] = @ + 1]

\* A loop without the finish test: the next iteration follows in any case.
AfterMidDrainIgnoresFinish(w, new) ==
    /\ drained' = [drained EXCEPT ![w] = @ \o new]
    /\ maxIter' = [maxIter EXCEPT ![w] = IF new # <<>> THEN @ + ExtraIters ELSE @]
    /\ justFinish' = [justFinish EXCEPT ![w] = IF new # <<>> THEN FALSE ELSE @]
    /\ batches' = [batches EXCEPT ![w] = IF new # <<>> THEN @ + 1 ELSE @]
    /\ UNCHANGED <<initIter, llmCalls>>
    /\ pc' = [pc EXCEPT ![w] = "renew"]
    /\ iter' = [iter EXCEPT ![w] = @ + 1]

\* What follows the mid-run drain: injection, the finish test, the counter.
AfterMidDrain(w, new) ==
    /\ drained' = [drained EXCEPT ![w] = @ \o new]
    /\ maxIter' = [maxIter EXCEPT ![w] = IF new # <<>> THEN @ + ExtraIters ELSE @]
    /\ justFinish' = [justFinish EXCEPT ![w] = IF new # <<>> THEN FALSE ELSE @]
    /\ batches' = [batches EXCEPT ![w] = IF new # <<>> THEN @ + 1 ELSE @]
    /\ UNCHANGED <<initIter, llmCalls>>
    /\ IF justFinish'[w]
       THEN /\ pc' = [pc EXCEPT ![w] = "ret_ok"]
            /\ UNCHANGED iter
       ELSE /\ pc' = [pc EXCEPT ![w] = "renew"]
            /\ iter' = [iter EXCEPT ![w] = @ + 1]

\* A mid-run drain that never looks at the context cap: it drains up to
\* max_contexts items in every iteration.
MidDrainUncapped(w) ==
    /\ pc[w] = "mid_drain"
    /\ LET mr == SomeMax(MaxContexts)
       IN  IF ~DrainReady(w) THEN DrainReadOnly(w, mr)
           ELSE /\ pendq' = DrainRemove(pendq, mr)
                /\ pipeRead' = [pipeRead EXCEPT ![w] = <<>>]
                /\ leaked' = leaked + Lost(Removed(pendq, mr), DrainItems(w, mr))
                /\ AfterMidDrain(w, DrainItems(w, mr))
                /\ touched' = IF Removed(pendq, mr) # <<>>
                              THEN TouchedBy(w) ELSE touched
                /\ robbed' = RobbedBy(w, Removed(pendq, mr))
                /\ UNCHANGED <<lock, bus, status, distVars, faults, succ, ret,
                               live, holds, pushedBack, dispVars, lockArgs,
                               renewals, consLocals>>

\* A mid-run drain that asks for max_contexts items, not for the remaining
\* allowance.
MidDrainFullCap(w) ==
    /\ pc[w] = "mid_drain"
    /\ LET rem == MaxContexts - Len(drained[w])
           mr == SomeMax(MaxContexts)
       IN  IF rem > 0
           THEN IF ~DrainReady(w) THEN DrainReadOnly(w, mr)
                ELSE /\ pendq' = DrainRemove(pendq, mr)
                     /\ pipeRead' = [pipeRead EXCEPT ![w] = <<>>]
                     /\ leaked' = leaked + Lost(Removed(pendq, mr), DrainItems(w, mr))
                     /\ AfterMidDrain(w, DrainItems(w, mr))
                     /\ touched' = IF Removed(pendq, mr) # <<>>
                                   THEN TouchedBy(w) ELSE touched
                     /\ robbed' = RobbedBy(w, Removed(pendq, mr))
                     /\ UNCHANGED <<lock, bus, status, distVars, faults, succ, ret,
                                    live, holds, pushedBack, dispVars, lockArgs, renewals, consLocals>>
           ELSE /\ AfterMidDrain(w, <<>>)
                /\ UNCHANGED <<kv, bus, status, distVars, faults, succ, ret,
                               live, holds, pipeRead, pushedBack,
                               dispVars, lockArgs, renewals, consLocals, flags>>

\* The drain between iterations, suppressed once the context cap is reached.
MidDrain(w) ==
    /\ pc[w] = "mid_drain"
    /\ LET rem == MaxContexts - Len(drained[w])
           mr == SomeMax(rem)
       IN  IF rem > 0
           THEN IF ~DrainReady(w) THEN DrainReadOnly(w, mr)
                ELSE /\ pendq' = DrainRemove(pendq, mr)
                     /\ pipeRead' = [pipeRead EXCEPT ![w] = <<>>]
                     /\ leaked' = leaked + Lost(Removed(pendq, mr), DrainItems(w, mr))
                     /\ AfterMidDrain(w, DrainItems(w, mr))
                     /\ touched' = IF Removed(pendq, mr) # <<>>
                                   THEN TouchedBy(w) ELSE touched
                     /\ robbed' = RobbedBy(w, Removed(pendq, mr))
                     /\ UNCHANGED <<lock, bus, status, distVars, faults, succ, ret,
                                    live, holds, pushedBack, dispVars, lockArgs, renewals, consLocals>>
           ELSE /\ AfterMidDrain(w, <<>>)
                /\ UNCHANGED <<kv, bus, status, distVars, faults, succ, ret,
                               live, holds, pipeRead, pushedBack,
                               dispVars, lockArgs, renewals, consLocals, flags>>

\* if lock_key and lock_ttl_seconds: None, the empty key and 0 are falsy.
RenewWanted(key, ttl) == key /\ ttl # NoneTtl /\ ttl[1] # 0

\* A loop test that lets the loop run once more: already_iterations <=
\* max_iterations.
RenewTestInclusive(w) ==
    /\ pc[w] = "renew"
    /\ IF RenewWanted(lockKey[w], lockTtl[w])
       THEN /\ lock' = SetXX(lock, lockTtl[w][1])
            /\ renewals' = [renewals EXCEPT ![w] = @ + 1]
       ELSE UNCHANGED <<lock, renewals>>
    /\ pc' = [pc EXCEPT ![w] = IF iter[w] <= maxIter[w] THEN "llm" ELSE "ret_ok"]
    /\ UNCHANGED <<pendq, leaked, bus, status, distVars, faults, succ, ret,
                   live, holds, pipeRead, drained, iter, maxIter, justFinish,
                   pushedBack, runObs, dispVars, lockArgs, consLocals, flags>>

\* A boundary that renews whether or not a lock key and TTL were passed.
RenewUnconditional(w) ==
    /\ pc[w] = "renew"
    /\ lock' = SetXX(lock, LockTtl)
    /\ renewals' = [renewals EXCEPT ![w] = @ + 1]
    /\ pc' = [pc EXCEPT ![w] = IF iter[w] < maxIter[w] THEN "llm" ELSE "ret_ok"]
    /\ UNCHANGED <<pendq, leaked, bus, status, distVars, faults, succ, ret,
                   live, holds, pipeRead, drained, iter, maxIter, justFinish,
                   pushedBack, runObs, dispVars, lockArgs, consLocals, flags>>

\* renew_redis_lock at the iteration boundary, then the loop's test.
Renew(w) ==
    /\ pc[w] = "renew"
    /\ IF RenewWanted(lockKey[w], lockTtl[w])
       THEN /\ lock' = SetXX(lock, lockTtl[w][1])
            /\ renewals' = [renewals EXCEPT ![w] = @ + 1]
       ELSE UNCHANGED <<lock, renewals>>
    /\ pc' = [pc EXCEPT ![w] = IF iter[w] < maxIter[w] THEN "llm" ELSE "ret_ok"]
    /\ UNCHANGED <<pendq, leaked, bus, status, distVars, faults, succ, ret,
                   live, holds, pipeRead, drained, iter, maxIter, justFinish,
                   pushedBack, runObs, dispVars, lockArgs, consLocals, flags>>

\* An except clause that pushes the live input context before the drained items.
RepushWithLive(w) ==
    /\ pc[w] = "repush"
    /\ LET item == drained[w][Len(pushedBack[w]) + 1] IN
       /\ pendq' = IF pushedBack[w] = <<>>
                   THEN RPUSH(RPUSH(pendq, live[w]), item)
                   ELSE RPUSH(pendq, item)
       /\ pushedBack' = [pushedBack EXCEPT ![w] = Append(@, item)]
       /\ pc' = [pc EXCEPT ![w] =
                   IF Len(pushedBack[w]) + 1 = Len(drained[w])
                   THEN "ret_fail" ELSE "repush"]
    /\ touched' = TouchedBy(w)
    /\ UNCHANGED <<lock, leaked, bus, status, distVars, faults, succ, ret,
                   live, holds, pipeRead, drained, iter, maxIter, justFinish,
                   runObs, dispVars, lockArgs, renewals, consLocals, robbed>>

\* The except clause: one push_skill_learn_pending per drained item.
Repush(w) ==
    /\ pc[w] = "repush"
    /\ LET item == drained[w][Len(pushedBack[w]) + 1] IN
       /\ pendq' = RPUSH(pendq, item)
       /\ pushedBack' = [pushedBack EXCEPT ![w] = Append(@, item)]
       /\ pc' = [pc EXCEPT ![w] =
                   IF Len(pushedBack[w]) + 1 = Len(drained[w])
                   THEN "ret_fail" ELSE "repush"]
    /\ touched' = TouchedBy(w)
    /\ UNCHANGED <<lock, leaked, bus, status, distVars, faults, succ, ret,
                   live, holds, pipeRead, drained, iter, maxIter, justFinish,
                   runObs, dispVars, lockArgs, renewals, consLocals, robbed>>

\* The run is over: the locals of skill_learner_agent are gone; kept is the
\* list the caller receives.
EndRun(w, kept) ==
    /\ drained' = [drained EXCEPT ![w] = kept]
    /\ iter' = [iter EXCEPT ![w] = 0]
    /\ maxIter' = [maxIter EXCEPT ![w] = 0]
    /\ justFinish' = [justFinish EXCEPT ![w] = FALSE]
    /\ pushedBack' = [pushedBack EXCEPT ![w] = <<>>]
    /\ initIter' = [initIter EXCEPT ![w] = 0]
    /\ llmCalls' = [llmCalls EXCEPT ![w] = 0]
    /\ batches' = [batches EXCEPT ![w] = 0]
    /\ resp' = [resp EXCEPT ![w] = <<>>]
    /\ disp' = [disp EXCEPT ![w] = 0]
    /\ toolResponse' = [toolResponse EXCEPT ![w] = <<>>]
    /\ invoked' = [invoked EXCEPT ![w] = <<>>]
    /\ hasReportedThinking' = [hasReportedThinking EXCEPT ![w] = FALSE]
    /\ ctxThinking' = [ctxThinking EXCEPT ![w] = FALSE]
    /\ errMsg' = [errMsg EXCEPT ![w] = <<>>]
    /\ lockKey' = [lockKey EXCEPT ![w] = FALSE]
    /\ lockTtl' = [lockTtl EXCEPT ![w] = NoneTtl]
    /\ renewals' = [renewals EXCEPT ![w] = 0]
    /\ touched' = [touched EXCEPT ![w] = FALSE]
    /\ robbed' = [robbed EXCEPT ![w] = FALSE]

\* return Result.reject(str(e))
ReturnFail(w) ==
    /\ pc[w] = "ret_fail"
    /\ EndRun(w, <<>>)
    /\ pc' = [pc EXCEPT ![w] = "status_failed"]
    /\ UNCHANGED <<kv, bus, status, distVars, faults, succ, ret,
                   live, holds, pipeRead, consLocals>>

\* A return that puts the live session id in front of the drained ids.
ReturnOkWithLive(w) ==
    /\ pc[w] = "ret_ok"
    /\ EndRun(w, <<SessionOf(live[w])>> \o SessionIds(drained[w]))
    /\ succ' = [c \in Ctx |->
                  IF c = live[w] \/ c \in Range(drained[w])
                  THEN succ[c] + 1 ELSE succ[c]]
    /\ pc' = [pc EXCEPT ![w] = "status_completed"]
    /\ UNCHANGED <<lock, pendq, leaked, bus, status, distVars, faults, ret,
                   live, holds, pipeRead, consLocals>>

\* A return that lists every session id once, as a set would.
ReturnOkDedup(w) ==
    /\ pc[w] = "ret_ok"
    /\ EndRun(w, Dedup(SessionIds(drained[w])))
    /\ succ' = [c \in Ctx |->
                  IF c = live[w] \/ c \in Range(drained[w])
                  THEN succ[c] + 1 ELSE succ[c]]
    /\ pc' = [pc EXCEPT ![w] = "status_completed"]
    /\ UNCHANGED <<kv, bus, status, distVars, faults, ret,
                   live, holds, pipeRead, consLocals>>

\* return Result.resolve([item.session_id for item in drained_items]): from
\* here on drained[w] is drained_session_ids, the list the caller received.
ReturnOk(w) ==
    /\ pc[w] = "ret_ok"
    /\ EndRun(w, SessionIds(drained[w]))
    /\ succ' = [c \in Ctx |->
                  IF c = live[w] \/ c \in Range(drained[w])
                  THEN succ[c] + 1 ELSE succ[c]]
    /\ pc' = [pc EXCEPT ![w] = "status_completed"]
    /\ UNCHANGED <<kv, bus, status, distVars, faults, ret,
                   live, holds, pipeRead, consLocals>>

\* ------------------------------------------------------------ consumer, after the run
\* A failure branch that asks for the retrigger as the success branch does.
StatusFailedRetrigger(w) ==
    /\ pc[w] = "status_failed"
    /\ status' = UpdateSessionStatus(status, SessionOf(live[w]), "failed")
    /\ writes' = [writes EXCEPT ![w] = Append(@, "failed")]
    /\ shouldRetrigger' = [shouldRetrigger EXCEPT ![w] = TRUE]
    /\ pc' = [pc EXCEPT ![w] = "release"]
    /\ UNCHANGED <<kv, bus, distVars, faults, succ, ret,
                   live, holds, pipeRead, agentLocals, remaining, flags>>

\* The run failed: mark the live session failed.
StatusFailed(w) ==
    /\ pc[w] = "status_failed"
    /\ status' = UpdateSessionStatus(status, SessionOf(live[w]), "failed")
    /\ writes' = [writes EXCEPT ![w] = Append(@, "failed")]
    /\ pc' = [pc EXCEPT ![w] = "release"]
    /\ UNCHANGED <<kv, bus, distVars, faults, succ, ret,
                   live, holds, pipeRead, agentLocals, shouldRetrigger,
                   remaining, flags>>

\* A success branch that marks the live session only.
StatusCompletedLiveOnly(w) ==
    /\ pc[w] = "status_completed"
    /\ shouldRetrigger' = [shouldRetrigger EXCEPT ![w] = TRUE]
    /\ status' = UpdateSessionStatus(status, SessionOf(live[w]), "completed")
    /\ writes' = [writes EXCEPT ![w] = Append(@, "completed")]
    /\ drained' = [drained EXCEPT ![w] = <<>>]
    /\ pc' = [pc EXCEPT ![w] = "release"]
    /\ UNCHANGED <<kv, bus, distVars, faults, succ, ret,
                   live, holds, pipeRead, iter, maxIter, justFinish, pushedBack,
                   runObs, dispVars, lockArgs, renewals, remaining, flags>>

\* The run succeeded: mark every session of all_session_ids completed.
StatusCompleted(w) ==
    /\ pc[w] = "status_completed"
    /\ shouldRetrigger' = [shouldRetrigger EXCEPT ![w] = TRUE]
    /\ LET ids == AllSessionIds(SessionOf(live[w]), drained[w]) IN
       /\ status' = [sid \in DOMAIN status |->
                       IF sid \in Range(ids) THEN "completed" ELSE status[sid]]
       /\ writes' = [writes EXCEPT ![w] =
                       @ \o [i \in 1 .. Occurs(ids, SessionOf(live[w])) |-> "completed"]]
    /\ drained' = [drained EXCEPT ![w] = <<>>]
    /\ pc' = [pc EXCEPT ![w] = "release"]
    /\ UNCHANGED <<kv, bus, distVars, faults, succ, ret,
                   live, holds, pipeRead, iter, maxIter, justFinish, pushedBack,
                   runObs, dispVars, lockArgs, renewals, remaining, flags>>

\* A finally clause whose release deletes nothing.
ReleaseLockKeepsKey(w) ==
    /\ pc[w] = "release"
    /\ holds' = [holds EXCEPT ![w] = FALSE]
    /\ pc' = [pc EXCEPT ![w] = IF shouldRetrigger[w] THEN "retrigger_drain" ELSE "done"]
    /\ UNCHANGED <<kv, bus, status, distVars, faults, succ, ret,
                   live, pipeRead, agentLocals, consLocals, flags>>

\* A handler that goes on to the retrigger without releasing the lock.
ReleaseLockSkipped(w) ==
    /\ pc[w] = "release"
    /\ pc' = [pc EXCEPT ![w] = IF shouldRetrigger[w] THEN "retrigger_drain" ELSE "done"]
    /\ UNCHANGED <<kv, bus, status, distVars, faults, succ, ret,
                   live, holds, pipeRead, agentLocals, consLocals, flags>>

\* finally: release_redis_lock, an unconditional DEL of the key.
ReleaseLock(w) ==
    /\ pc[w] = "release"
    /\ lock' = 0
    /\ holds' = [holds EXCEPT ![w] = FALSE]
    /\ pc' = [pc EXCEPT ![w] = IF shouldRetrigger[w] THEN "retrigger_drain" ELSE "done"]
    /\ UNCHANGED <<pendq, leaked, bus, status, distVars, faults, succ, ret,
                   live, pipeRead, agentLocals, consLocals, flags>>

\* if should_retrigger: drain one item.
RetriggerDrain(w) ==
    /\ pc[w] = "retrigger_drain"
    /\ LET mr == SomeMax(1) IN
       IF ~DrainReady(w) THEN DrainReadOnly(w, mr)
       ELSE /\ pendq' = DrainRemove(pendq, mr)
            /\ pipeRead' = [pipeRead EXCEPT ![w] = <<>>]
            /\ leaked' = leaked + Lost(Removed(pendq, mr), DrainItems(w, mr))
            /\ remaining' = [remaining EXCEPT ![w] = DrainItems(w, mr)]
            /\ touched' = IF Removed(pendq, mr) # <<>> THEN TouchedBy(w) ELSE touched
            /\ robbed' = RobbedBy(w, Removed(pendq, mr))
            /\ pc' = [pc EXCEPT ![w] =
                        IF DrainItems(w, mr) # <<>> THEN "retrigger_publish" ELSE "done"]
            /\ UNCHANGED <<lock, bus, status, distVars, faults, succ, ret,
                           live, holds, agentLocals, shouldRetrigger, writes>>

\* if remaining: publish remaining[0] to the agent routing key.
RetriggerPublish(w) ==
    /\ pc[w] = "retrigger_publish"
    /\ bus' = Bump(bus, remaining[w][1])
    /\ pc' = [pc EXCEPT ![w] = "done"]
    /\ UNCHANGED <<kv, status, distVars, faults, succ, ret,
                   live, holds, pipeRead, agentLocals, consLocals, flags>>

\* ------------------------------------------------------------ delivery ends
\* The handler's coroutine is gone, and its locals with it.
DropLocals(w) ==
    /\ holds' = [holds EXCEPT ![w] = FALSE]
    /\ pipeRead' = [pipeRead EXCEPT ![w] = <<>>]
    /\ drained' = [drained EXCEPT ![w] = <<>>]
    /\ iter' = [iter EXCEPT ![w] = 0]
    /\ maxIter' = [maxIter EXCEPT ![w] = 0]
    /\ justFinish' = [justFinish EXCEPT ![w] = FALSE]
    /\ pushedBack' = [pushedBack EXCEPT ![w] = <<>>]
    /\ initIter' = [initIter EXCEPT ![w] = 0]
    /\ llmCalls' = [llmCalls EXCEPT ![w] = 0]
    /\ batches' = [batches EXCEPT ![w] = 0]
    /\ resp' = [resp EXCEPT ![w] = <<>>]
    /\ disp' = [disp EXCEPT ![w] = 0]
    /\ toolResponse' = [toolResponse EXCEPT ![w] = <<>>]
    /\ invoked' = [invoked EXCEPT ![w] = <<>>]
    /\ hasReportedThinking' = [hasReportedThinking EXCEPT ![w] = FALSE]
    /\ ctxThinking' = [ctxThinking EXCEPT ![w] = FALSE]
    /\ errMsg' = [errMsg EXCEPT ![w] = <<>>]
    /\ lockKey' = [lockKey EXCEPT ![w] = FALSE]
    /\ lockTtl' = [lockTtl EXCEPT ![w] = NoneTtl]
    /\ renewals' = [renewals EXCEPT ![w] = 0]
    /\ shouldRetrigger' = [shouldRetrigger EXCEPT ![w] = FALSE]
    /\ remaining' = [remaining EXCEPT ![w] = <<>>]
    /\ touched' = [touched EXCEPT ![w] = FALSE]
    /\ robbed' = [robbed EXCEPT ![w] = FALSE]

\* The delivery is over: the worker is free for the next message.
ResetWorker(w) ==
    /\ pc' = [pc EXCEPT ![w] = "idle"]
    /\ live' = [live EXCEPT ![w] = NoCtx]
    /\ writes' = [writes EXCEPT ![w] = <<>>]
    /\ DropLocals(w)

\* The handler returns and the bus acks the message.
Ack(w) ==
    /\ pc[w] = "done"
    /\ ResetWorker(w)
    /\ UNCHANGED <<kv, bus, status, distVars, faults, succ, ret>>

\* The worker process dies: nothing of the handler runs any more and the
\* lock key stays until its TTL ends.
Crash(w) ==
    /\ pc[w] \notin {"idle", "aborted"}
    /\ faults < MaxFaults
    /\ faults' = faults + 1
    /\ pc' = [pc EXCEPT ![w] = "aborted"]
    /\ DropLocals(w)
    /\ UNCHANGED <<kv, bus, status, distVars, succ, ret, live, writes>>

\* The consumer timeout cancels the handler at the await it is suspended in:
\* CancelledError passes the agent's except clause, and the finally releases
\* the lock if the try block was entered.  A handler that is cancelled while
\* it awaits release_redis_lock in the finally leaves that call, with the DEL
\* sent or not.
Timeout(w) ==
    /\ pc[w] \notin {"idle", "aborted"}
    /\ faults < MaxFaults
    /\ faults' = faults + 1
    /\ lock' \in IF ~holds[w] THEN {lock}
                 ELSE IF pc[w] = "release" THEN {0, lock} ELSE {0}
    /\ pc' = [pc EXCEPT ![w] = "aborted"]
    /\ DropLocals(w)
    /\ UNCHANGED <<pendq, leaked, bus, status, distVars, succ, ret, live, writes>>

\* The bus puts the unacked message of an aborted delivery back on the queue.
Redeliver(w) ==
    /\ pc[w] = "aborted"
    /\ bus' = Bump(bus, live[w])
    /\ ResetWorker(w)
    /\ UNCHANGED <<kv, status, distVars, faults, succ, ret>>

\* Everything but the distillation consumer.
AgentSide ==
    \/ \E w \in Workers, c \in Ctx : Deliver(w, c)
    \/ Tick
    \/ \E w \in Workers : ParkPush(w)
    \/ \E w \in Workers : ParkStatus(w)
    \/ \E w \in Workers : EntryDrain(w)
    \/ \E w \in Workers : LLMFail(w)
    \/ \E w \in Workers : LLMStop(w)
    \/ \E w \in Workers, fin \in BOOLEAN : LLMTools(w, fin)
    \/ \E w \in Workers : MidDrain(w)
    \/ \E w \in Workers : Renew(w)
    \/ \E w \in Workers : Repush(w)
    \/ \E w \in Workers : ReturnFail(w)
    \/ \E w \in Workers : ReturnOk(w)
    \/ \E w \in Workers : StatusFailed(w)
    \/ \E w \in Workers : StatusCompleted(w)
    \/ \E w \in Workers : ReleaseLock(w)
    \/ \E w \in Workers : RetriggerDrain(w)
    \/ \E w \in Workers : RetriggerPublish(w)
    \/ \E w \in Workers : Ack(w)
    \/ \E w \in Workers : Crash(w)
    \/ \E w \in Workers : Timeout(w)
    \/ \E w \in Workers : Redeliver(w)

Next ==
    \/ \E c \in Ctx : Distill(c)
    \/ AgentSide

Spec == Init /\ [][Next]_vars

\* The steps of one handler invocation that the event loop schedules.
HandlerStep(w) ==
    \/ ParkPush(w) \/ ParkStatus(w)
    \/ EntryDrain(w) \/ LLMFail(w) \/ LLMStop(w)
    \/ \E fin \in BOOLEAN : LLMTools(w, fin)
    \/ MidDrain(w) \/ Renew(w) \/ Repush(w)
    \/ ReturnFail(w) \/ ReturnOk(w)
    \/ StatusFailed(w) \/ StatusCompleted(w)
    \/ ReleaseLock(w) \/ RetriggerDrain(w) \/ RetriggerPublish(w)

\* Redis expires keys, a handler that can run does run, and the bus delivers,
\* acks and redelivers; distillations, crashes and timeouts need not happen.
FairSpec ==
    /\ Spec
    /\ WF_vars(Tick)
    /\ \A w \in Workers : WF_vars(HandlerStep(w))
    /\ \A w \in Workers : WF_vars(Ack(w) \/ Redeliver(w))
    /\ WF_vars(\E w \in Workers, c \in Ctx : Deliver(w, c))

\* ------------------------------------------------------------ the primitives alone
\* Clients calling the pending-list primitives in any order, with any max_read.
MaxReads == {NoneMax} \cup {SomeMax(m) : m \in -1 .. MaxRead}

\* push_skill_learn_pending
KVPush(w, c) ==
    /\ pipeRead[w] = <<>>
    /\ Len(pendq) < MaxQueue
    /\ pendq' = RPUSH(pendq, c)
    /\ UNCHANGED <<lock, leaked, bus, status, distVars, faults, succ, ret, wvars>>

\* drain_skill_learn_pending; remaining[w] is the list it returns.
KVDrain(w, mr) ==
    IF DrainSkipped(mr)
    THEN /\ pipeRead[w] = <<>>
         /\ remaining' = [remaining EXCEPT ![w] = <<>>]
         /\ ret' = Call("drain", w, mr, TRUE)
         /\ UNCHANGED <<kv, bus, status, distVars, faults, succ, pc, live,
                        holds, pipeRead, agentLocals, shouldRetrigger, writes, flags>>
    ELSE IF ~DrainReady(w) THEN DrainReadOnly(w, mr)
    ELSE /\ IF PipelineTransaction THEN TRUE ELSE pipeRead[w][2] = mr
         /\ pendq' = DrainRemove(pendq, mr)
         /\ pipeRead' = [pipeRead EXCEPT ![w] = <<>>]
         /\ leaked' = leaked + Lost(Removed(pendq, mr), DrainItems(w, mr))
         /\ remaining' = [remaining EXCEPT ![w] = DrainItems(w, mr)]
         /\ ret' = Call("drain", w, mr, TRUE)
         /\ UNCHANGED <<lock, bus, status, distVars, faults, succ, pc, live,
                        holds, agentLocals, shouldRetrigger, writes, flags>>

KVNext ==
    \/ \E w \in Workers, c \in Ctx : KVPush(w, c)
    \/ \E w \in Workers, mr \in MaxReads : KVDrain(w, mr)

KVSpec == Init /\ [][KVNext]_vars

\* The state in which worker 1 holds the lock and is inside the run for
\* context 1 after an empty entry drain, and a second delivery, of context 2,
\* was denied, has parked its body, written queued and returned.
ParkedWhileRunning ==
    /\ lock = LockTtl
    /\ pendq = <<2>>
    /\ bus = [c \in Ctx |-> 0]
    /\ status = [c \in Ctx |-> IF c = 1 THEN "running" ELSE "queued"]
    /\ published = Ctx
    /\ pc = [w \in Workers |-> IF w = 1 THEN "llm" ELSE "idle"]
    /\ live = [w \in Workers |-> IF w = 1 THEN 1 ELSE NoCtx]
    /\ drained = [w \in Workers |-> <<>>]
    /\ iter = [w \in Workers |-> 0]
    /\ maxIter = [w \in Workers |-> IF w = 1 THEN MaxIterations ELSE 0]
    /\ justFinish = [w \in Workers |-> FALSE]
    /\ pushedBack = [w \in Workers |-> <<>>]
    /\ initIter = [w \in Workers |-> IF w = 1 THEN MaxIterations ELSE 0]
    /\ llmCalls = [w \in Workers |-> 0]
    /\ batches = [w \in Workers |-> 0]
    /\ resp = [w \in Workers |-> <<>>]
    /\ disp = [w \in Workers |-> 0]
    /\ toolResponse = [w \in Workers |-> <<>>]
    /\ invoked = [w \in Workers |-> <<>>]
    /\ hasReportedThinking = [w \in Workers |-> FALSE]
    /\ ctxThinking = [w \in Workers |-> FALSE]
    /\ errMsg = [w \in Workers |-> <<>>]
    /\ lockKey = [w \in Workers |-> w = 1]
    /\ lockTtl = [w \in Workers |-> IF w = 1 THEN SomeTtl(LockTtl) ELSE NoneTtl]
    /\ renewals = [w \in Workers |-> 0]
    /\ task = [c \in Ctx |-> "published"]
    /\ shouldRetrigger = [w \in Workers |-> FALSE]
    /\ remaining = [w \in Workers |-> <<>>]
    /\ pipeRead = [w \in Workers |-> <<>>]
    /\ holds = [w \in Workers |-> w = 1]
    /\ faults = 0
    /\ leaked = 0
    /\ ret = NoCall
    /\ succ = [c \in Ctx |-> 0]
    /\ writes = [w \in Workers |-> <<>>]
    /\ touched = [w \in Workers |-> w = 1]
    /\ robbed = [w \in Workers |-> FALSE]

\* What can follow from there when no further context is distilled.
ScenarioSpec == ParkedWhileRunning /\ [][AgentSide]_vars

\* Redis expires keys whatever the workers do.
LeaseSpec == Spec /\ WF_vars(Tick)

\* ------------------------------------------------------------ the lock primitives alone
\* Clients calling the lock primitives in any order, with any ttl_seconds.
Ttls == {SomeTtl(t) : t \in 1 .. LockTtl}

\* check_redis_lock_or_set
KVAcquire(w, ttl) ==
    /\ lock' = SetNX(lock, ttl)
    /\ holds' = [holds EXCEPT ![w] = @ \/ lock = 0]
    /\ ret' = Call("acquire", w, ttl, lock = 0)
    /\ UNCHANGED <<pendq, leaked, bus, status, distVars, faults, succ,
                   pc, live, pipeRead, agentLocals, consLocals, flags>>

\* release_redis_lock
KVRelease(w) ==
    /\ lock' = 0
    /\ holds' = [holds EXCEPT ![w] = FALSE]
    /\ ret' = Call("release", w, NoneTtl, TRUE)
    /\ UNCHANGED <<pendq, leaked, bus, status, distVars, faults, succ,
                   pc, live, pipeRead, agentLocals, consLocals, flags>>

\* renew_redis_lock
KVRenew(w, ttl) ==
    /\ lock' = SetXX(lock, ttl[1])
    /\ ret' = Call("renew", w, ttl, lock # 0)
    /\ UNCHANGED <<pendq, leaked, bus, status, distVars, faults, succ,
                   pc, live, holds, pipeRead, agentLocals, consLocals, flags>>

LockNext ==
    \/ \E w \in Workers, ttl \in Ttls \cup {NoneTtl} : KVAcquire(w, ttl)
    \/ \E w \in Workers : KVRelease(w)
    \/ \E w \in Workers, ttl \in Ttls : KVRenew(w, ttl)
    \/ Tick

LockSpec == Init /\ [][LockNext]_vars

\* ------------------------------------------------------------ the agent alone
\* The caller that was handed the one published context c and has acquired
\* the lock calls skill_learner_agent with max_iterations = m (idle workers
\* are alike: the first one is the caller).
AgentCall(w, c, m) ==
    /\ \A v \in Workers : pc[v] = "idle" /\ w <= v
    /\ published = {}
    /\ published' = {c}
    /\ lock = 0
    /\ lock' = SetNX(lock, SomeTtl(LockTtl))
    /\ holds' = [holds EXCEPT ![w] = TRUE]
    /\ live' = [live EXCEPT ![w] = c]
    /\ maxIter' = [maxIter EXCEPT ![w] = m]
    /\ initIter' = [initIter EXCEPT ![w] = m]
    /\ lockKey' = [lockKey EXCEPT ![w] = TRUE]
    /\ lockTtl' = [lockTtl EXCEPT ![w] = SomeTtl(LockTtl)]
    /\ pc' = [pc EXCEPT ![w] = "entry_drain"]
    /\ UNCHANGED <<task, pendq, leaked, bus, status, faults, succ, ret,
                   pipeRead, drained, iter, justFinish, pushedBack, llmCalls,
                   batches, dispVars, renewals, consLocals, flags>>

\* The caller has the Result and releases the lock.
AgentReturn(w) ==
    /\ pc[w] \in {"status_completed", "status_failed"}
    /\ lock' = 0
    /\ ResetWorker(w)
    /\ UNCHANGED <<pendq, leaked, bus, status, distVars, faults, succ, ret>>

\* One run of the agent, while other clients push contexts to the
\* pending list and the lock's TTL runs down.
AgentNext ==
    \/ \E w \in Workers, c \in Ctx, m \in 0 .. MaxIterArg : AgentCall(w, c, m)
    \/ \E w \in Workers : EntryDrain(w)
    \/ \E w \in Workers : LLMFail(w)
    \/ \E w \in Workers : LLMStop(w)
    \/ \E w \in Workers, fin \in BOOLEAN : LLMTools(w, fin)
    \/ \E w \in Workers : MidDrain(w)
    \/ \E w \in Workers : Renew(w)
    \/ \E w \in Workers : Repush(w)
    \/ \E w \in Workers : ReturnFail(w)
    \/ \E w \in Workers : ReturnOk(w)
    \/ \E w \in Workers : AgentReturn(w)
    \/ \E w \in Workers, c \in Ctx : KVPush(w, c)
    \/ Tick

AgentSpec == Init /\ [][AgentNext]_vars

\* The steps of the run that the event loop schedules: every awaited call
\* (Redis, the LM, a tool) returns.
AgentStep(w) ==
    \/ EntryDrain(w) \/ LLMFail(w) \/ LLMStop(w)
    \/ \E fin \in BOOLEAN : LLMTools(w, fin)
    \/ MidDrain(w) \/ Renew(w) \/ Repush(w)
    \/ ReturnFail(w) \/ ReturnOk(w)

\* One run of the agent while other clients push contexts. A run that can
\* take a step does take one; pushes by other clients need not happen. The
\* run never reads the lock, whose TTL is left out here.
AgentFairNext ==
    \/ \E w \in Workers, c \in Ctx, m \in 0 .. MaxIterArg : AgentCall(w, c, m)
    \/ \E w \in Workers : AgentStep(w)
    \/ \E w \in Workers : AgentReturn(w)
    \/ \E w \in Workers, c \in Ctx : KVPush(w, c)

AgentFairSpec ==
    Init /\ [][AgentFairNext]_vars /\ \A w \in Workers : WF_vars(AgentStep(w))

\* The same with an LM whose every response contains a call of a tool other
\* than finish, with or without a finish call, and whose tools all succeed:
\* no LM error, no response without tool calls, no tool failure.
ToolsNext ==
    \/ \E w \in Workers, c \in Ctx, m \in 0 .. MaxIterArg : AgentCall(w, c, m)
    \/ \E w \in Workers : EntryDrain(w)
    \/ \E w \in Workers, fin \in BOOLEAN : LLMTools(w, fin)
    \/ \E w \in Workers : MidDrain(w)
    \/ \E w \in Workers : Renew(w)
    \/ \E w \in Workers : ReturnOk(w)
    \/ \E w \in Workers : AgentReturn(w)
    \/ \E w \in Workers, c \in Ctx : KVPush(w, c)
    \/ Tick

ToolsSpec == Init /\ [][ToolsNext]_vars

\* ------------------------------------------------------------ the distillation consumer
\* What process_context_distillation returns: an error, None, or a context.
DistillOutcomes == {"error", "none", "context"}

\* A handler that marks the session running before it looks at the lookup's
\* result.
DistillLookupMarksFirst(c, found) ==
    /\ task[c] = "new"
    /\ status' = UpdateSessionStatus(status, SessionOf(c), "running")
    /\ task' = [task EXCEPT ![c] = IF found THEN "distilling" ELSE "skipped"]
    /\ UNCHANGED <<kv, bus, published, faults, succ, ret, wvars>>

\* process_skill_distillation up to the distillation call: the lookup of the
\* session's learning space; found is false when the lookup fails or the
\* session has none, and the handler returns; otherwise the session is
\* marked running.
DistillLookup(c, found) ==
    /\ task[c] = "new"
    /\ IF found
       THEN /\ status' = UpdateSessionStatus(status, SessionOf(c), "running")
            /\ task' = [task EXCEPT ![c] = "distilling"]
       ELSE /\ task' = [task EXCEPT ![c] = "skipped"]
            /\ UNCHANGED status
    /\ UNCHANGED <<kv, bus, published, faults, succ, ret, wvars>>

\* A handler that marks the session failed when the distillation returns
\* None.
DistillResultNoneFails(c, out) ==
    /\ task[c] = "distilling"
    /\ CASE out = "context" ->
              /\ bus' = Bump(bus, c)
              /\ published' = published \cup {c}
              /\ task' = [task EXCEPT ![c] = "published"]
              /\ UNCHANGED status
         [] OTHER ->
              /\ status' = UpdateSessionStatus(status, SessionOf(c), "failed")
              /\ task' = [task EXCEPT ![c] = IF out = "none" THEN "none" ELSE "failed"]
              /\ UNCHANGED <<bus, published>>
    /\ UNCHANGED <<kv, faults, succ, ret, wvars>>

\* process_skill_distillation from the distillation's result on.
DistillResult(c, out) ==
    /\ task[c] = "distilling"
    /\ CASE out = "error" ->
              /\ status' = UpdateSessionStatus(status, SessionOf(c), "failed")
              /\ task' = [task EXCEPT ![c] = "failed"]
              /\ UNCHANGED <<bus, published>>
         [] out = "none" ->
              /\ task' = [task EXCEPT ![c] = "none"]
              /\ UNCHANGED <<status, bus, published>>
         [] OTHER ->
              /\ bus' = Bump(bus, c)
              /\ published' = published \cup {c}
              /\ task' = [task EXCEPT ![c] = "published"]
              /\ UNCHANGED status
    /\ UNCHANGED <<kv, faults, succ, ret, wvars>>

\* Both consumers: the distillation handler with every outcome, and the
\* agent consumer with an LM that answers or fails at once, without crash or
\* timeout.
DistillNext ==
    \/ \E c \in Ctx, found \in BOOLEAN : DistillLookup(c, found)
    \/ \E c \in Ctx, out \in DistillOutcomes : DistillResult(c, out)
    \/ \E w \in Workers, c \in Ctx : Deliver(w, c)
    \/ Tick
    \/ \E w \in Workers : ParkPush(w)
    \/ \E w \in Workers : ParkStatus(w)
    \/ \E w \in Workers : EntryDrain(w)
    \/ \E w \in Workers : LLMFail(w)
    \/ \E w \in Workers : LLMStop(w)
    \/ \E w \in Workers : Repush(w)
    \/ \E w \in Workers : ReturnFail(w)
    \/ \E w \in Workers : ReturnOk(w)
    \/ \E w \in Workers : StatusFailed(w)
    \/ \E w \in Workers : StatusCompleted(w)
    \/ \E w \in Workers : ReleaseLock(w)
    \/ \E w \in Workers : RetriggerDrain(w)
    \/ \E w \in Workers : RetriggerPublish(w)
    \/ \E w \in Workers : Ack(w)

DistillSpec == Init /\ [][DistillNext]_vars

\* ------------------------------------------------------------ the handler's exits
\* A handler whose release follows the try block without a finally: an
\* exception passes it by.
RaiseSkipsRelease(w, requeue) ==
    /\ pc[w] \in RunPcs \cup {"status_completed", "status_failed"}
    /\ faults < MaxFaults
    /\ faults' = faults + 1
    /\ pc' = [pc EXCEPT ![w] = IF requeue THEN "aborted" ELSE "done"]
    /\ DropLocals(w)
    /\ UNCHANGED <<kv, bus, status, distVars, succ, ret, live, writes>>

\* An exception leaves the try block of process_skill_agent: raised by
\* run_skill_agent or by a status write.  The finally releases the lock and
\* the exception goes on to the bus, which requeues the message or drops it.
Raise(w, requeue) ==
    /\ pc[w] \in RunPcs \cup {"status_completed", "status_failed"}
    /\ faults < MaxFaults
    /\ faults' = faults + 1
    /\ lock' = 0
    /\ pc' = [pc EXCEPT ![w] = IF requeue THEN "aborted" ELSE "done"]
    /\ DropLocals(w)
    /\ UNCHANGED <<pendq, leaked, bus, status, distVars, succ, ret, live, writes>>

\* Both consumers with every way out of a handler whose process stays alive:
\* return, exception, consumer timeout.
ExitNext ==
    \/ \E c \in Ctx : Distill(c)
    \/ \E w \in Workers, c \in Ctx : Deliver(w, c)
    \/ Tick
    \/ \E w \in Workers : ParkPush(w)
    \/ \E w \in Workers : ParkStatus(w)
    \/ \E w \in Workers : EntryDrain(w)
    \/ \E w \in Workers : LLMFail(w)
    \/ \E w \in Workers : LLMStop(w)
    \/ \E w \in Workers, fin \in BOOLEAN : LLMTools(w, fin)
    \/ \E w \in Workers : MidDrain(w)
    \/ \E w \in Workers : Renew(w)
    \/ \E w \in Workers : Repush(w)
    \/ \E w \in Workers : ReturnFail(w)
    \/ \E w \in Workers : ReturnOk(w)
    \/ \E w \in Workers : StatusFailed(w)
    \/ \E w \in Workers : StatusCompleted(w)
    \/ \E w \in Workers : ReleaseLock(w)
    \/ \E w \in Workers : RetriggerDrain(w)
    \/ \E w \in Workers : RetriggerPublish(w)
    \/ \E w \in Workers : Ack(w)
    \/ \E w \in Workers : Timeout(w)
    \/ \E w \in Workers, requeue \in BOOLEAN : Raise(w, requeue)
    \/ \E w \in Workers : Redeliver(w)

ExitSpec == Init /\ [][ExitNext]_vars

\* ------------------------------------------------------------ the lock arguments
\* The lock_key and lock_ttl_seconds a caller can pass: both, neither, a key
\* without TTL, a key with TTL 0, a TTL without key.
LockArgs ==
    {<<TRUE, SomeTtl(LockTtl)>>, <<FALSE, NoneTtl>>, <<TRUE, NoneTtl>>,
     <<TRUE, SomeTtl(0)>>, <<FALSE, SomeTtl(LockTtl)>>}

\* A caller that has the lock calls skill_learner_agent with the lock
\* arguments la and max_iterations = MaxIterArg.
AgentCallLock(w, c, la) ==
    /\ \A v \in Workers : pc[v] = "idle" /\ w <= v
    /\ published = {}
    /\ published' = {c}
    /\ lock = 0
    /\ lock' = SetNX(lock, SomeTtl(LockTtl))
    /\ holds' = [holds EXCEPT ![w] = TRUE]
    /\ live' = [live EXCEPT ![w] = c]
    /\ maxIter' = [maxIter EXCEPT ![w] = MaxIterArg]
    /\ initIter' = [initIter EXCEPT ![w] = MaxIterArg]
    /\ lockKey' = [lockKey EXCEPT ![w] = la[1]]
    /\ lockTtl' = [lockTtl EXCEPT ![w] = la[2]]
    /\ pc' = [pc EXCEPT ![w] = "entry_drain"]
    /\ UNCHANGED <<task, pendq, leaked, bus, status, faults, succ, ret,
                   pipeRead, drained, iter, justFinish, pushedBack, llmCalls,
                   batches, dispVars, renewals, consLocals, flags>>

\* One run whose LM calls all succeed, with any lock arguments, while other
\* clients push contexts and the lock's TTL runs down.
RenewNext ==
    \/ \E w \in Workers, c \in Ctx, la \in LockArgs : AgentCallLock(w, c, la)
    \/ \E w \in Workers : EntryDrain(w)
    \/ \E w \in Workers : LLMStop(w)
    \/ \E w \in Workers, fin \in BOOLEAN : LLMTools(w, fin)
    \/ \E w \in Workers : MidDrain(w)
    \/ \E w \in Workers : Renew(w)
    \/ \E w \in Workers : ReturnOk(w)
    \/ \E w \in Workers : AgentReturn(w)
    \/ \E w \in Workers, c \in Ctx : KVPush(w, c)
    \/ Tick

RenewSpec == Init /\ [][RenewNext]_vars

\* ------------------------------------------------------------ tool dispatch
\* SKILL_LEARNER_TOOLS: the names the registry maps to a handler; finish is
\* not one of them.
Registry == {"report_thinking", "str_replace_skill_file"}

\* The tool names an LM response can carry.
ToolNames == Registry \cup {"finish", "nonexistent_tool"}

\* llm_return.tool_calls of the responses the LM answers with: one or two
\* calls.  The tool_call_id of a call is its position in the response.
Responses ==
    {<<a>> : a \in ToolNames} \cup {<<a, b>> : a \in ToolNames, b \in ToolNames}

\* What awaiting a handler can do: return a value, return an error, or raise.
Outcomes == {"ok", "rejected", "KeyError", "RuntimeError", "Exception"}

\* str(e), as the parts the message is put together from.
LLMFailedMsg == <<"LLM call failed">>
NotFoundMsg(name) == <<"Tool", name, "not found">>
RejectedMsg(name) == <<"Tool", name, "rejected">>
ErrorMsg(name) == <<"Tool", name, "error">>
\* The message of a RuntimeError the handler raised itself.
HandlerMsg == <<"the handler's own text">>

\* The except clauses of the dispatch: KeyError and every other exception are
\* wrapped in a message that names the tool, a RuntimeError is re-raised as
\* it is.
ToolFailure(name, out) ==
    CASE out = "rejected" -> RejectedMsg(name)
      [] out = "KeyError" -> NotFoundMsg(name)
      [] out = "RuntimeError" -> HandlerMsg
      [] OTHER -> ErrorMsg(name)

\* The handler of report_thinking sets ctx.has_reported_thinking; no other
\* handler writes the flag.
HandlerSetsThinking(name) == name = "report_thinking"

\* llm_complete returns an error.
LLMError(w) ==
    /\ pc[w] = "llm"
    /\ llmCalls' = [llmCalls EXCEPT ![w] = @ + 1]
    /\ errMsg' = [errMsg EXCEPT ![w] = LLMFailedMsg]
    /\ pc' = [pc EXCEPT ![w] = IF drained[w] = <<>> THEN "ret_fail" ELSE "repush"]
    /\ UNCHANGED <<kv, bus, status, distVars, faults, succ, ret,
                   live, holds, pipeRead, drained, iter, maxIter, justFinish,
                   pushedBack, initIter, batches, resp, disp, toolResponse,
                   invoked, hasReportedThinking, ctxThinking, lockArgs,
                   renewals, consLocals, flags>>

\* An iteration whose SkillLearnerCtx starts with has_reported_thinking
\* false whatever the earlier iterations left.
LLMRespondFreshCtx(w, r) ==
    /\ pc[w] = "llm"
    /\ llmCalls' = [llmCalls EXCEPT ![w] = @ + 1]
    /\ resp' = [resp EXCEPT ![w] = r]
    /\ disp' = [disp EXCEPT ![w] = 0]
    /\ justFinish' = [justFinish EXCEPT ![w] = FALSE]
    /\ toolResponse' = [toolResponse EXCEPT ![w] = <<>>]
    /\ invoked' = [invoked EXCEPT ![w] = <<>>]
    /\ ctxThinking' = [ctxThinking EXCEPT ![w] = FALSE]
    /\ pc' = [pc EXCEPT ![w] = "dispatch"]
    /\ UNCHANGED <<kv, bus, status, distVars, faults, succ, ret,
                   live, holds, pipeRead, drained, iter, maxIter, pushedBack,
                   initIter, batches, hasReportedThinking, errMsg, lockArgs,
                   renewals, consLocals, flags>>

\* llm_complete returns the tool calls r: just_finish and tool_response are
\* reset and the SkillLearnerCtx of the iteration is created.
LLMRespond(w, r) ==
    /\ pc[w] = "llm"
    /\ llmCalls' = [llmCalls EXCEPT ![w] = @ + 1]
    /\ resp' = [resp EXCEPT ![w] = r]
    /\ disp' = [disp EXCEPT ![w] = 0]
    /\ justFinish' = [justFinish EXCEPT ![w] = FALSE]
    /\ toolResponse' = [toolResponse EXCEPT ![w] = <<>>]
    /\ invoked' = [invoked EXCEPT ![w] = <<>>]
    /\ ctxThinking' = [ctxThinking EXCEPT ![w] = hasReportedThinking[w]]
    /\ pc' = [pc EXCEPT ![w] = "dispatch"]
    /\ UNCHANGED <<kv, bus, status, distVars, faults, succ, ret,
                   live, holds, pipeRead, drained, iter, maxIter, pushedBack,
                   initIter, batches, hasReportedThinking, errMsg, lockArgs,
                   renewals, consLocals, flags>>

\* The for loop and the ctx are left: use_tools, tool_response and ctx are
\* not read again.
IterationOver(w) ==
    /\ resp' = [resp EXCEPT ![w] = <<>>]
    /\ disp' = [disp EXCEPT ![w] = 0]
    /\ toolResponse' = [toolResponse EXCEPT ![w] = <<>>]
    /\ invoked' = [invoked EXCEPT ![w] = <<>>]
    /\ ctxThinking' = [ctxThinking EXCEPT ![w] = FALSE]

\* A for loop that answers a finish call with a tool message as well.
DispatchAnswersFinish(w, out) ==
    /\ pc[w] = "dispatch"
    /\ disp[w] < Len(resp[w])
    /\ LET id == disp[w] + 1
           name == resp[w][id]
           raised == name \notin Registry \/ out # "ok"
       IN  IF name = "finish"
           THEN /\ out = "ok"
                /\ justFinish' = [justFinish EXCEPT ![w] = TRUE]
                /\ toolResponse' = [toolResponse EXCEPT ![w] = Append(@, id)]
                /\ disp' = [disp EXCEPT ![w] = id]
                /\ UNCHANGED <<pc, resp, invoked, ctxThinking, errMsg>>
           ELSE /\ name \notin Registry => out = "ok"
                /\ IF raised
                   THEN /\ errMsg' = [errMsg EXCEPT ![w] =
                                        IF name \notin Registry
                                        THEN NotFoundMsg(name)
                                        ELSE ToolFailure(name, out)]
                        /\ pc' = [pc EXCEPT ![w] =
                                    IF drained[w] = <<>> THEN "ret_fail" ELSE "repush"]
                        /\ IterationOver(w)
                   ELSE /\ invoked' = [invoked EXCEPT ![w] = Append(@, id)]
                        /\ toolResponse' = [toolResponse EXCEPT ![w] = Append(@, id)]
                        /\ ctxThinking' = [ctxThinking EXCEPT ![w] =
                                             @ \/ HandlerSetsThinking(name)]
                        /\ disp' = [disp EXCEPT ![w] = id]
                        /\ UNCHANGED <<pc, resp, errMsg>>
                /\ UNCHANGED justFinish
    /\ UNCHANGED <<kv, bus, status, distVars, faults, succ, ret,
                   live, holds, pipeRead, drained, iter, maxIter, pushedBack,
                   runObs, hasReportedThinking, lockArgs, renewals,
                   consLocals, flags>>

\* One pass of the for loop over use_tools: the next tool call, whose handler
\* (if the name has one) does out.
Dispatch(w, out) ==
    /\ pc[w] = "dispatch"
    /\ disp[w] < Len(resp[w])
    /\ LET id == disp[w] + 1
           name == resp[w][id]
           raised == name \notin Registry \/ out # "ok"
       IN  IF name = "finish"
           THEN /\ out = "ok"
                /\ justFinish' = [justFinish EXCEPT ![w] = TRUE]
                /\ disp' = [disp EXCEPT ![w] = id]
                /\ UNCHANGED <<pc, resp, toolResponse, invoked, ctxThinking, errMsg>>
           ELSE /\ name \notin Registry => out = "ok"
                /\ IF raised
                   THEN /\ errMsg' = [errMsg EXCEPT ![w] =
                                        IF name \notin Registry
                                        THEN NotFoundMsg(name)
                                        ELSE ToolFailure(name, out)]
                        /\ pc' = [pc EXCEPT ![w] =
                                    IF drained[w] = <<>> THEN "ret_fail" ELSE "repush"]
                        /\ IterationOver(w)
                   ELSE /\ invoked' = [invoked EXCEPT ![w] = Append(@, id)]
                        /\ toolResponse' = [toolResponse EXCEPT ![w] = Append(@, id)]
                        /\ ctxThinking' = [ctxThinking EXCEPT ![w] =
                                             @ \/ HandlerSetsThinking(name)]
                        /\ disp' = [disp EXCEPT ![w] = id]
                        /\ UNCHANGED <<pc, resp, errMsg>>
                /\ UNCHANGED justFinish
    /\ UNCHANGED <<kv, bus, status, distVars, faults, succ, ret,
                   live, holds, pipeRead, drained, iter, maxIter, pushedBack,
                   runObs, hasReportedThinking, lockArgs, renewals,
                   consLocals, flags>>

\* The for loop is through: the flag of the ctx is kept for the next
\* iteration and the tool messages join the history.
DispatchDone(w) ==
    /\ pc[w] = "dispatch"
    /\ disp[w] = Len(resp[w])
    /\ hasReportedThinking' = [hasReportedThinking EXCEPT ![w] = ctxThinking[w]]
    /\ IterationOver(w)
    /\ pc' = [pc EXCEPT ![w] = "mid_drain"]
    /\ UNCHANGED <<kv, bus, status, distVars, faults, succ, ret,
                   live, holds, pipeRead, drained, iter, maxIter, justFinish,
                   pushedBack, runObs, errMsg, lockArgs, renewals, consLocals,
                   flags>>

\* One run of the agent, tool call by tool call, while other clients push
\* contexts to the pending list.
DispatchNext ==
    \/ \E w \in Workers, c \in Ctx : AgentCall(w, c, MaxIterations)
    \/ \E w \in Workers : EntryDrain(w)
    \/ \E w \in Workers : LLMError(w)
    \/ \E w \in Workers : LLMStop(w)
    \/ \E w \in Workers, r \in Responses : LLMRespond(w, r)
    \/ \E w \in Workers, out \in Outcomes : Dispatch(w, out)
    \/ \E w \in Workers : DispatchDone(w)
    \/ \E w \in Workers : MidDrain(w)
    \/ \E w \in Workers : Renew(w)
    \/ \E w \in Workers : Repush(w)
    \/ \E w \in Workers : ReturnFail(w)
    \/ \E w \in Workers : ReturnOk(w)
    \/ \E w \in Workers : AgentReturn(w)
    \/ \E w \in Workers, c \in Ctx : KVPush(w, c)

DispatchSpec == Init /\ [][DispatchNext]_vars

\* ------------------------------------------------------------ properties
\* Nothing can happen any more: every context is published, no message is on
\* the bus or being handled.  Only the lock's TTL can still run down.
Quiet ==
    /\ published = Ctx
    /\ \A w \in Workers : pc[w] = "idle"
    /\ \A c \in Ctx : bus[c] = 0

\* Multiset inclusion of the entries of a in the entries of b.
BagLeq(a, b) == \A x \in Range(a) : Occurs(a, x) <= Occurs(b, x)

\* a is the tail of b.
IsSuffix(a, b) ==
    Len(a) <= Len(b) /\ SubSeq(b, Len(b) - Len(a) + 1, Len(b)) = a

\* C1: at most one process at a time is between its successful
\* check_redis_lock_or_set and its release, whatever the interleaving,
\* TTL expiry during a run included.
C1_AtMostOneHolder == Cardinality({w \in Workers : holds[w]}) <= 1

\* C2: every published context is eventually the input of an agent run that
\* returns success; stated on the states where nothing can happen any more:
\* by then every published context has been consumed.
C2_EveryContextConsumed == Quiet => \A c \in published : succ[c] >= 1

\* C3: no context is part of the input of two agent runs that both return
\* success.
C3_ConsumedAtMostOnce == \A c \in Ctx : succ[c] <= 1

\* C4: no item pushed to the pending list stays there forever when no further
\* delivery arrives; stated on the states where nothing can happen any more:
\* by then the list is empty.
C4_NoItemLeftInQueue == Quiet => pendq = <<>>

\* C5 as stated: every drain (entry, mid-run, retrigger) is executed by a
\* process that holds the lock at the moment of the drain.
C5_EveryDrainHoldsLock ==
    \A w \in Workers :
        pc[w] \in {"entry_drain", "mid_drain", "retrigger_drain"} => holds[w]

\* C5 amended: the entry drain and the mid-run drains are executed by the
\* process that acquired the lock and has not released it; the retrigger drain
\* is executed after that process has released the lock.
C5_DrainLockOrder ==
    \A w \in Workers :
        /\ pc[w] \in {"entry_drain", "mid_drain"} => holds[w]
        /\ pc[w] \in {"retrigger_drain", "retrigger_publish"} => ~holds[w]

C5_Witness ==
    \E w \in Workers : pc[w] = "retrigger_drain" /\ ~holds[w] /\ pendq # <<>>

\* C6: a drain removes from the list exactly the entries it returns, for
\* max_read = None and for max_read > 0, with pushes by other clients before
\* and after it: no entry is removed without being returned.
C6_DrainAtomic == leaked = 0

C6_Witness ==
    \E w \in Workers : remaining[w] # <<>> /\ pendq # <<>> /\ leaked = 0

\* C7 as stated: when the agent returns a failure result, the pending list
\* contains, as a multiset, every item the run drained.
C7_QueueContainsDrained ==
    \A w \in Workers : pc[w] = "ret_fail" => BagLeq(drained[w], pendq)

\* C7 amended: when the agent returns a failure result and no other process
\* has drained the list since the run's first re-push, the pending list
\* contains, as a multiset, every item the run drained.
C7_QueueContainsDrainedUnlessRobbed ==
    \A w \in Workers :
        (pc[w] = "ret_fail" /\ ~robbed[w]) => BagLeq(drained[w], pendq)

C7_Witness ==
    \E w \in Workers : pc[w] = "ret_fail" /\ drained[w] # <<>> /\ ~robbed[w]

\* C8: on a failing run every drained item is re-pushed exactly once, in the
\* order it was drained, and nothing else is pushed; if no other process
\* changed the list since the entry drain, the list ends with the drained
\* items in their order, and is exactly those items when the entry drain had
\* emptied it.
C8_RepushOnceInOrder ==
    \A w \in Workers :
        pc[w] = "ret_fail" =>
            /\ pushedBack[w] = drained[w]
            /\ ~touched[w] =>
                  /\ IsSuffix(drained[w], pendq)
                  /\ Len(drained[w]) < MaxContexts => pendq = drained[w]

C8_Witness ==
    \E w \in Workers :
        pc[w] = "ret_fail" /\ ~touched[w] /\ drained[w] # <<>>
            /\ pendq = drained[w] /\ live[w] \notin Range(pendq)

\* C9 as stated: a success result never contains the session id of the live
\* input context.
C9_ResultWithoutLiveId ==
    \A w \in Workers :
        pc[w] = "status_completed" => SessionOf(live[w]) \notin Range(drained[w])

\* C9 amended: the id list of a success result is the session ids of the
\* drained items, in drain order and unfiltered; the agent adds no id for the
\* live input context.
C9_ResultIsDrainedIds ==
    [][\A w \in Workers :
          (pc[w] = "ret_ok" /\ pc'[w] = "status_completed")
              => drained'[w] = SessionIds(drained[w])]_vars

C9_Witness ==
    \E w \in Workers :
        pc[w] = "status_completed" /\ SessionOf(live[w]) \in Range(drained[w])

\* C10 as stated: no delivery ends with zero or with two status writes to its
\* live session, however it ends.
C10_ExactlyOneWrite ==
    \A w \in Workers : pc[w] \in {"done", "aborted"} => Len(writes[w]) = 1

\* C10 amended: a delivery whose handler returns has made exactly one status
\* write to its live session: completed after a successful run, failed after a
\* failed run, queued after a denied lock; a delivery cut short by a crash or
\* the consumer timeout has made at most one.
C10_OneWritePerReturn ==
    \A w \in Workers :
        /\ Len(writes[w]) <= 1
        /\ pc[w] = "release" => writes[w] \in {<<"completed">>, <<"failed">>}
        /\ pc[w] = "done" =>
              /\ writes[w] \in {<<"completed">>, <<"failed">>, <<"queued">>}
              /\ writes[w] = <<"completed">> <=> shouldRetrigger[w]

C10_Witness ==
    \E w, v \in Workers :
        /\ pc[w] = "done" /\ writes[w] = <<"completed">>
        /\ pc[v] = "aborted" /\ writes[v] = <<>>

\* The sessions whose status the consumers write.
Sessions == {SessionOf(c) : c \in Ctx}

\* C11: when the run succeeded, the success branch writes completed once to
\* the live session and once to the session of every drained context, and to
\* no other session.
C11_CompletedExactlyLiveAndDrained ==
    [][\A w \in Workers :
          (pc[w] = "status_completed" /\ pc'[w] = "release") =>
              LET ids == AllSessionIds(SessionOf(live[w]), drained[w])
                  target == {SessionOf(live[w])} \cup Range(drained[w])
              IN  /\ \A sid \in Sessions :
                        Occurs(ids, sid) = IF sid \in target THEN 1 ELSE 0
                  /\ status' = [sid \in Sessions |->
                                  IF sid \in target THEN "completed"
                                  ELSE status[sid]]]_vars

C11_Witness ==
    \E w \in Workers :
        /\ pc[w] = "status_completed"
        /\ drained[w] # <<>>
        /\ \E sid \in Range(drained[w]) :
              sid # SessionOf(live[w]) /\ status[sid] # "completed"

\* C12: when the run failed, the handler writes failed to the live session
\* and changes no other session's status, and it goes from the release to
\* its return: no retrigger drain, no publish.
C12_FailedLiveOnlyNoRetrigger ==
    /\ [](\A w \in Workers :
             pc[w] \in {"retrigger_drain", "retrigger_publish"}
                 => writes[w] = <<"completed">>)
    /\ [][\A w \in Workers :
             /\ (pc[w] = "status_failed" /\ pc'[w] = "release") =>
                   /\ status' = [status EXCEPT ![SessionOf(live[w])] = "failed"]
                   /\ ~shouldRetrigger'[w]
                   /\ pendq' = pendq /\ bus' = bus
             /\ (pc[w] = "release" /\ writes[w] = <<"failed">>
                     /\ pc'[w] \notin {"release", "aborted"}) =>
                   pc'[w] = "done" /\ pendq' = pendq /\ bus' = bus
                       /\ status' = status]_vars

C12_Witness ==
    \E w \in Workers :
        /\ pc[w] = "done" /\ writes[w] = <<"failed">>
        /\ pendq # <<>>
        /\ \A i \in 1 .. Len(pendq) : status[SessionOf(pendq[i])] # "failed"

\* C13: a session whose context was parked and then consumed by a successful
\* run ends with status completed, not queued; stated on the states where
\* nothing can happen any more, in behaviours without crash or timeout (every
\* context then has one copy, and only a denied delivery writes queued).
C13_ParkedThenCompletedNotQueued ==
    \A c \in Ctx :
        (Quiet /\ faults = 0 /\ succ[c] >= 1) => status[SessionOf(c)] # "queued"

\* C14: a denied delivery leaves the lock key and its expiry as they are,
\* appends its body at the tail of the pending list, writes queued to the
\* live session and returns; it never runs the agent, drains, publishes,
\* deletes or renews the lock.
C14_DeniedParksOnly ==
    /\ [](\A w \in Workers :
             (pc[w] \in {"park_push", "park_status"}
                  \/ (pc[w] = "done" /\ writes[w] = <<"queued">>))
                 => /\ ~holds[w] /\ ~shouldRetrigger[w]
                    /\ drained[w] = <<>> /\ remaining[w] = <<>>)
    /\ [][\A w \in Workers :
             /\ (pc[w] = "idle" /\ pc'[w] = "park_push") =>
                   /\ lock > 0 /\ lock' = lock
                   /\ pendq' = pendq /\ status' = status
             /\ (pc[w] = "park_push" /\ pc'[w] \notin {"park_push", "aborted"}) =>
                   /\ pc'[w] = "park_status"
                   /\ pendq' = pendq \o <<live[w]>>
                   /\ lock' = lock /\ bus' = bus /\ status' = status
             /\ (pc[w] = "park_status" /\ pc'[w] \notin {"park_status", "aborted"}) =>
                   /\ pc'[w] = "done"
                   /\ status' = [status EXCEPT ![SessionOf(live[w])] = "queued"]
                   /\ pendq' = pendq /\ lock' = lock /\ bus' = bus]_vars

C14_Witness ==
    \E w \in Workers :
        /\ pc[w] = "done" /\ writes[w] = <<"queued">>
        /\ Len(pendq) >= 2 /\ pendq[Len(pendq)] = live[w]
        /\ pendq[1] # live[w]
        /\ lock > 0 /\ status[SessionOf(live[w])] = "queued"

\* C15: in a delivery that acquired the lock, the release comes before the
\* retrigger: the handler reaches the retrigger drain only by the step that
\* deletes the lock key, reaches the publish only from that drain, and holds
\* no lock when it drains or publishes.
C15_ReleaseBeforeRetrigger ==
    [][\A w \in Workers :
          /\ (pc'[w] = "retrigger_drain" /\ pc[w] # "retrigger_drain") =>
                pc[w] = "release" /\ holds[w] /\ lock' = 0 /\ ~holds'[w]
          /\ (pc'[w] = "retrigger_publish" /\ pc[w] # "retrigger_publish") =>
                pc[w] = "retrigger_drain" /\ ~holds[w]
          /\ (pc[w] = "retrigger_publish" /\ pc'[w] = "done") =>
                ~holds[w] /\ bus' = Bump(bus, remaining[w][1])]_vars

C15_Witness ==
    \E w \in Workers :
        /\ pc[w] = "done" /\ remaining[w] # <<>>
        /\ bus[remaining[w][1]] > 0 /\ ~holds[w]

\* C16: after a successful run the retrigger publishes the head of the
\* pending list, and the chain of retriggers eventually empties the list
\* without any new distillation event; stated for a retrigger that leaves
\* items behind: from its publish on, the list eventually is empty for good.
C16_RetriggerChainEmptiesQueue ==
    []((\E w \in Workers : pc[w] = "retrigger_publish" /\ pendq # <<>>)
          => <>[](pendq = <<>>))

\* C19: the lock key always carries an expiry, so a key left behind by a
\* holder that crashed without releasing eventually is gone, and the next
\* check_redis_lock_or_set finds it absent.
C19_LockNotLeaked ==
    (lock # 0 /\ \A w \in Workers : ~holds[w]) ~> (lock = 0)

C19_Witness ==
    \E w \in Workers :
        pc[w] = "aborted" /\ lock > 0 /\ \A v \in Workers : ~holds[v]

\* C20: check_redis_lock_or_set returns true iff the key was absent, and then
\* the key is present; when the key was present it returns false and leaves
\* the key and its expiry as they were; release_redis_lock leaves the key
\* absent, whether it was present or not, so the acquire after a release
\* returns true; neither touches anything but the key.
C20_AcquireRelease ==
    /\ [](ret.op = "release" => lock = 0)
    /\ [][ret' # ret =>
            /\ UNCHANGED <<pendq, bus, status>>
            /\ ret'.op = "acquire" =>
                  /\ ret'.ok <=> lock = 0
                  /\ lock = 0 => lock' > 0
                  /\ lock # 0 => lock' = lock
            /\ ret'.op = "release" => lock' = 0
            /\ (ret.op = "release" /\ ret'.op = "acquire") => ret'.ok]_vars

C20_Witness ==
    /\ ret.op = "acquire" /\ ~ret.ok
    /\ \E w \in Workers : holds[w] /\ ret.by # w
    /\ lock = 1

\* C21: renew_redis_lock returns true iff the key exists at the time of the
\* call, and then the key's expiry is ttl_seconds; when the key is absent,
\* expired or released, it returns false and the key stays absent; it touches
\* nothing but the key.
C21_RenewOnlyIfPresent ==
    [][(ret' # ret /\ ret'.op = "renew") =>
          /\ ret'.ok <=> lock # 0
          /\ lock # 0 => lock' = ret'.arg[1]
          /\ lock = 0 => lock' = 0
          /\ UNCHANGED <<pendq, bus, status, holds>>]_vars

C21_Witness ==
    /\ ret.op = "renew" /\ ~ret.ok /\ lock = 0
    /\ holds[ret.by]

\* C22: on a list q of n items, a drain with max_read = m > 0 returns the
\* first min(m, n) items in list order and leaves the items from position m
\* on, in order; with max_read absent it returns all n items in order and
\* leaves the key absent; on an absent key it returns the empty list and
\* leaves the key absent.
C22_DrainPrefixAndRest ==
    [][(ret' # ret /\ ret'.op = "drain") =>
          LET mr == ret'.arg
              n == Len(pendq)
              res == remaining'[ret'.by]
          IN  /\ (mr # NoneMax /\ mr[1] > 0) =>
                    /\ res = [i \in 1 .. Min(mr[1], n) |-> pendq[i]]
                    /\ pendq' = [i \in 1 .. n - Min(mr[1], n) |->
                                    pendq[i + Min(mr[1], n)]]
              /\ mr = NoneMax => (res = pendq /\ pendq' = <<>>)
              /\ (pendq = <<>> /\ ~DrainSkipped(mr)) =>
                    (res = <<>> /\ pendq' = <<>>)]_vars

C22_Witness ==
    /\ ret.op = "drain" /\ ret.arg # NoneMax
    /\ ret.arg[1] = 2
    /\ Len(remaining[ret.by]) = 2
    /\ remaining[ret.by][1] # remaining[ret.by][2]
    /\ pendq # <<>>

\* C23: a drain with max_read <= 0 returns the empty list and leaves the
\* pending list and the lock key as they are.
C23_NonPositiveMaxReadIsNoOp ==
    [][(ret' # ret /\ ret'.op = "drain" /\ ret'.arg # NoneMax
            /\ ret'.arg[1] <= 0) =>
          /\ remaining'[ret'.by] = <<>>
          /\ UNCHANGED <<pendq, lock, leaked>>]_vars

C23_Witness ==
    /\ ret.op = "drain" /\ ret.arg # NoneMax /\ ret.arg[1] <= 0
    /\ remaining[ret.by] = <<>>
    /\ Len(pendq) >= 2

C25_ToolCallsExhaustBudget ==
    [][\A w \in Workers :
          (pc[w] = "ret_ok" /\ pc'[w] = "status_completed" /\ batches[w] = 0)
              => /\ llmCalls[w] = initIter[w]
                 /\ drained'[w] = SessionIds(drained[w])]_vars

\* C25 amended: if every LM response contains at least one tool call and none
\* contains finish, all tools succeed and no mid-run drain returned items,
\* the run makes exactly max_iterations LM calls and then returns success
\* with the ids drained so far; it never returns a failure.  (With no
\* injection a finish call ends the loop in its own iteration, so no
\* response contained finish iff just_finish is false at the return.)
C25_ToolCallsWithoutFinishExhaustBudget ==
    /\ [](\A w \in Workers : pc[w] \notin {"repush", "ret_fail", "status_failed"})
    /\ [][\A w \in Workers :
             (pc[w] = "ret_ok" /\ pc'[w] = "status_completed"
                  /\ batches[w] = 0 /\ ~justFinish[w])
                 => /\ llmCalls[w] = initIter[w]
                    /\ drained'[w] = SessionIds(drained[w])]_vars

C25_Witness ==
    \E w \in Workers :
        /\ pc[w] = "ret_ok" /\ batches[w] = 0 /\ ~justFinish[w]
        /\ initIter[w] = 2 /\ llmCalls[w] = 2
        /\ drained[w] # <<>> /\ pendq # <<>>

\* C26: during a run the iteration budget is the max_iterations the run was
\* called with plus extra_iters for every mid-run drain that returned at
\* least one item, whatever the number of items; a run that no finish call
\* ends makes exactly that many LM calls.
C26_BudgetGrowsPerBatch ==
    \A w \in Workers :
        pc[w] \in {"llm", "mid_drain", "renew", "ret_ok"} =>
            /\ maxIter[w] = initIter[w] + ExtraIters * batches[w]
            /\ (pc[w] = "ret_ok" /\ ~justFinish[w]) =>
                  llmCalls[w] = initIter[w] + ExtraIters * batches[w]

C26_Witness ==
    \E w \in Workers :
        /\ pc[w] = "ret_ok" /\ ~justFinish[w]
        /\ initIter[w] = 2 /\ batches[w] = 1 /\ Len(drained[w]) = 2
        /\ llmCalls[w] = 2 + ExtraIters

\* C27: at every point of a run the contexts drained so far, on entry and
\* mid-run, number at most max_contexts; every drain takes what the remaining
\* allowance permits (max_read = max_contexts - drained so far) from the head
\* of the list; and once the cap is reached the loop drains nothing more.
C27_ContextCap ==
    /\ [](\A w \in Workers : Len(drained[w]) <= MaxContexts)
    /\ [][\A w \in Workers :
             (pc[w] \in {"entry_drain", "mid_drain"} /\ pc'[w] # pc[w]) =>
                 LET allowance == MaxContexts - Len(drained[w]) IN
                 /\ Len(drained'[w]) =
                       Len(drained[w]) + Min(Max(allowance, 0), Len(pendq))
                 /\ drained'[w] \o pendq' = drained[w] \o pendq
                 /\ allowance <= 0 => pendq' = pendq]_vars

C27_Witness ==
    \E w \in Workers :
        /\ pc[w] = "renew" /\ iter[w] >= 2
        /\ Len(drained[w]) = MaxContexts /\ batches[w] = 0
        /\ Len(pendq) = MaxQueue

\* C28: when the LM calls finish in an iteration and the mid-run drain of
\* that iteration returns at least one context, the loop goes on: the new
\* contexts join the drained items, just_finish is cleared, the budget left
\* lets the loop's test pass so that another LM call is made, the drained
\* items stay until the return, and a success result holds the session id of
\* every drained item, the injected ones included.
C28_FinishOverriddenByNewContexts ==
    [][\A w \in Workers :
          /\ (pc[w] = "mid_drain" /\ justFinish[w] /\ pc'[w] # "mid_drain"
                  /\ Len(drained'[w]) > Len(drained[w])) =>
                /\ pc'[w] = "renew" /\ ~justFinish'[w]
                /\ iter'[w] = iter[w] + 1 /\ iter'[w] < maxIter'[w]
                /\ llmCalls'[w] = llmCalls[w]
          /\ (pc[w] = "renew" /\ pc'[w] # "renew" /\ iter[w] < maxIter[w]) =>
                pc'[w] = "llm"
          /\ (pc[w] = "llm" /\ pc'[w] # "llm") => llmCalls'[w] = llmCalls[w] + 1
          /\ (pc[w] \in {"llm", "mid_drain", "renew"} /\ pc'[w] \in RunPcs) =>
                /\ Len(drained[w]) <= Len(drained'[w])
                /\ SubSeq(drained'[w], 1, Len(drained[w])) = drained[w]
          /\ (pc[w] = "ret_ok" /\ pc'[w] = "status_completed") =>
                drained'[w] = SessionIds(drained[w])]_vars

C28_Witness ==
    \E w \in Workers :
        /\ pc[w] = "mid_drain" /\ justFinish[w]
        /\ initIter[w] = 1 /\ llmCalls[w] = 1 /\ iter[w] = 0
        /\ drained[w] = <<>> /\ Len(pendq) = 2

\* C29: when the LM calls finish in an iteration, the other tool calls of the
\* response succeed and the mid-run drain of that iteration returns nothing
\* or is suppressed by the cap, the loop stops after that iteration and the
\* run returns success: no further LM call, no lock renewal, no change of
\* the pending list.
C29_FinishHonoredWhenNothingPending ==
    [][\A w \in Workers :
          /\ (pc[w] = "mid_drain" /\ justFinish[w] /\ pc'[w] # "mid_drain"
                  /\ drained'[w] = drained[w]) =>
                /\ pc'[w] = "ret_ok"
                /\ lock' = lock /\ llmCalls'[w] = llmCalls[w]
                /\ iter'[w] = iter[w]
          /\ (pc[w] = "ret_ok" /\ pc'[w] # "ret_ok") =>
                /\ pc'[w] = "status_completed"
                /\ lock' = lock /\ pendq' = pendq
                /\ drained'[w] = SessionIds(drained[w])]_vars

C29_Witness ==
    \E w \in Workers :
        /\ pc[w] = "ret_ok" /\ justFinish[w]
        /\ initIter[w] = 2 /\ llmCalls[w] = 1
        /\ lock > 0 /\ lock < LockTtl
        /\ Len(drained[w]) = MaxContexts /\ pendq # <<>>

C31_ToolFailureAborts ==
    /\ [](\A w \in Workers : pc[w] = "ret_fail" => pushedBack[w] = drained[w])
    /\ [][\A w \in Workers :
             /\ (pc[w] = "dispatch" /\ pc'[w] \notin {"dispatch", "mid_drain"}) =>
                   /\ pc'[w] \in {"repush", "ret_fail"}
                   /\ resp[w][disp[w] + 1] \in Range(errMsg'[w])
                   /\ pendq' = pendq /\ drained'[w] = drained[w]
             /\ (pc[w] = "repush" /\ pc'[w] # "repush") =>
                   pc'[w] = "ret_fail" /\ errMsg'[w] = errMsg[w]
             /\ (pc[w] = "ret_fail" /\ pc'[w] # "ret_fail") =>
                   pc'[w] = "status_failed"]_vars

\* C32: on success the agent returns the session ids of exactly the contexts
\* it drained: the entry drain's items first, then those of each mid-run
\* drain, each in the order it left the list, one id per item (a session
\* drained twice is listed twice); with nothing drained it returns the empty
\* list.
C32_ReturnsDrainedIdsInOrder ==
    [][\A w \in Workers :
          /\ (pc[w] = "entry_drain" /\ pc'[w] # "entry_drain") =>
                drained[w] = <<>> /\ drained'[w] \o pendq' = pendq
          /\ (pc[w] = "mid_drain" /\ pc'[w] # "mid_drain") =>
                \E new \in {SubSeq(pendq, 1, n) : n \in 0 .. Len(pendq)} :
                    drained'[w] = drained[w] \o new /\ new \o pendq' = pendq
          /\ (pc[w] \in {"llm", "renew"} /\ pc'[w] \in RunPcs) =>
                drained'[w] = drained[w]
          /\ (pc[w] = "ret_ok" /\ pc'[w] # "ret_ok") =>
                /\ pc'[w] = "status_completed"
                /\ Len(drained'[w]) = Len(drained[w])
                /\ \A i \in 1 .. Len(drained[w]) :
                      drained'[w][i] = SessionOf(drained[w][i])]_vars

C32_Witness ==
    \E w \in Workers :
        /\ pc[w] = "status_completed"
        /\ Len(drained[w]) = 2 /\ drained[w][1] = drained[w][2]
        /\ pendq # <<>>

\* C33: when a lock key and a TTL are passed, renew_redis_lock is called once
\* after every iteration that goes on to the loop's test and at no other
\* point, with the TTL that was passed, so a run that stops on finish or on a
\* response without tool calls after n LM calls has made n - 1 renewals; a
\* renewal that finds the key gone changes nothing and the run goes on; and
\* when no key (or no TTL) is passed no renewal is made and the key is left
\* as it is.
C33_RenewalPerIteration ==
    [][\A w \in Workers :
          LET wanted == RenewWanted(lockKey[w], lockTtl[w]) IN
          /\ (pc[w] = "renew" /\ pc'[w] # "renew") =>
                /\ pc'[w] = IF iter[w] < maxIter[w] THEN "llm" ELSE "ret_ok"
                /\ renewals'[w] = IF wanted THEN renewals[w] + 1 ELSE 0
                /\ lock' = IF wanted /\ lock # 0 THEN lockTtl[w][1] ELSE lock
          /\ (pc[w] # "renew" /\ pc'[w] \in RunPcs) =>
                renewals'[w] = renewals[w]
          /\ (pc[w] \in {"llm", "mid_drain"} /\ pc'[w] = "ret_ok") =>
                renewals'[w] = IF wanted THEN llmCalls'[w] - 1 ELSE 0
          /\ (pc[w] = "ret_ok" /\ pc'[w] # "ret_ok") =>
                pc'[w] = "status_completed"]_vars

C33_Witness ==
    \E w \in Workers :
        /\ pc[w] = "ret_ok" /\ justFinish[w]
        /\ lockKey[w] /\ lockTtl[w] = SomeTtl(LockTtl)
        /\ llmCalls[w] = 3 /\ renewals[w] = 2
        /\ lock = 0

\* C34: when the session of a task has no learning space, or the lookup
\* fails, process_skill_distillation returns at once: it writes no session
\* status, does not distill, publishes nothing and leaves the pending list
\* and the lock as they are; the task is never taken further.
C34_NoLearningSpaceNoEffect ==
    /\ [](\A c \in Ctx :
             task[c] = "skipped" =>
                 /\ status[SessionOf(c)] = "pending"
                 /\ c \notin published /\ bus[c] = 0 /\ succ[c] = 0)
    /\ [][\A c \in Ctx :
             /\ (task[c] = "new" /\ task'[c] \notin {"new", "distilling"}) =>
                   /\ task'[c] = "skipped"
                   /\ UNCHANGED <<status, bus, published, kv, holds, pc>>
             /\ task[c] = "skipped" => task'[c] = "skipped"]_vars

C34_Witness ==
    \E c \in Ctx :
        /\ task[c] = "skipped" /\ status[SessionOf(c)] = "pending"
        /\ \E w \in Workers : holds[w] /\ lock > 0 /\ pc[w] = "llm"

\* C35: for a session with a learning space, process_skill_distillation
\* first writes status running and then does exactly one of three things: on
\* a distillation error it writes failed and publishes nothing; on None it
\* publishes nothing and the status stays running; on a context it publishes
\* that context once to the agent's routing key and writes no status.  On no
\* path does it touch the lock or the pending list.
C35_DistillationOutcomes ==
    [][\A c \in Ctx :
          LET sid == SessionOf(c) IN
          /\ (task[c] = "new" /\ task'[c] = "distilling") =>
                /\ status' = [status EXCEPT ![sid] = "running"]
                /\ UNCHANGED <<bus, published>>
          /\ (task[c] = "distilling" /\ task'[c] # "distilling") =>
                /\ status[sid] = "running"
                /\ \/ /\ task'[c] = "failed"
                      /\ status' = [status EXCEPT ![sid] = "failed"]
                      /\ UNCHANGED <<bus, published>>
                   \/ /\ task'[c] = "none"
                      /\ UNCHANGED <<status, bus, published>>
                   \/ /\ task'[c] = "published"
                      /\ bus' = [bus EXCEPT ![c] = @ + 1]
                      /\ published' = published \cup {c}
                      /\ UNCHANGED status
          /\ task'[c] # task[c] => UNCHANGED <<kv, holds, pc>>
          /\ task[c] \in {"failed", "none", "published"} => task'[c] = task[c]]_vars

C35_Witness ==
    \E c, d \in Ctx :
        /\ task[c] = "none" /\ status[SessionOf(c)] = "running"
        /\ task[d] = "failed" /\ status[SessionOf(d)] = "failed"

\* C36 as stated: in a delivery that acquired the lock, release_redis_lock
\* runs on every way out of the agent run (success, failure, an exception,
\* cancellation by the consumer timeout), so every step by which a handler
\* stops being the holder leaves the lock key absent.
C36_ReleaseOnEveryExit ==
    [][\A w \in Workers : (holds[w] /\ ~holds'[w]) => lock' = 0]_vars

\* C36 amended: in a delivery that acquired the lock, every way out of the
\* agent run (success, failure, an exception of the run or of a status
\* write, cancellation by the consumer timeout during the run or a status
\* write) leads through release_redis_lock, and the step by which the handler
\* stops being the holder leaves the key absent; the one exception is a
\* handler that the timeout cancels while it awaits release_redis_lock
\* itself, whose key can stay until its TTL ends.  A handler past the
\* finally is no holder.
C36_ReleaseOnEveryExitFromRun ==
    /\ [](\A w \in Workers :
             pc[w] \in {"retrigger_drain", "retrigger_publish", "done", "aborted"}
                 => ~holds[w])
    /\ [][\A w \in Workers :
             /\ (holds[w] /\ ~holds'[w]) =>
                   lock' = 0 \/ (pc[w] = "release" /\ pc'[w] = "aborted")
             /\ (holds[w] /\ pc[w] # "release" /\ pc'[w] \notin RunPcs
                     /\ pc'[w] \notin {"status_completed", "status_failed"}) =>
                   \/ pc'[w] = "release" /\ holds'[w]
                   \/ pc'[w] \in {"aborted", "done"} /\ lock' = 0]_vars

C36_Witness ==
    \E w \in Workers :
        /\ pc[w] = "aborted" /\ writes[w] = <<>> /\ lock = 0
        /\ status[SessionOf(live[w])] = "running"
        /\ pendq # <<>>

\* C37: a run of skill_learner_agent always ends, whatever the LM answers
\* and whatever other clients push meanwhile: every budget extension takes at
\* least one context off the cap, so the run makes at most max_iterations +
\* extra_iters * max_contexts LM calls, and a run that has started eventually
\* returns.
C37_RunTerminatesWithinBudget ==
    /\ [](\A w \in Workers :
             /\ batches[w] <= Len(drained[w])
             /\ llmCalls[w] <= initIter[w] + ExtraIters * MaxContexts)
    /\ \A w \in Workers : (pc[w] \in RunPcs) ~> (pc[w] \notin RunPcs)

C37_Witness ==
    \E w \in Workers :
        /\ pc[w] = "ret_ok"
        /\ batches[w] = MaxContexts
        /\ llmCalls[w] = initIter[w] + ExtraIters * MaxContexts
        /\ pendq # <<>>

\* C38: an LM response without tool calls ends the loop with success at
\* once. That iteration drains nothing: the step leaves the pending list and
\* the drained contexts as they were, until the run returns the list only
\* grows at its tail, and the returned ids are those of the contexts drained
\* before the response, so what is pending stays in the list.
C38_NoToolCallsNoDrain ==
    [][\A w \in Workers :
          /\ (pc[w] = "llm" /\ pc'[w] = "ret_ok") =>
                /\ pendq' = pendq
                /\ drained'[w] = drained[w]
                /\ pipeRead'[w] = pipeRead[w]
          /\ (pc[w] = "ret_ok" /\ pc'[w] = "ret_ok") =>
                /\ drained'[w] = drained[w]
                /\ Len(pendq') >= Len(pendq)
                /\ SubSeq(pendq', 1, Len(pendq)) = pendq
          /\ (pc[w] = "ret_ok" /\ pc'[w] # "ret_ok") =>
                /\ pc'[w] = "status_completed"
                /\ pendq' = pendq
                /\ Len(drained'[w]) = Len(drained[w])
                /\ \A i \in 1 .. Len(drained[w]) :
                      drained'[w][i] = SessionOf(drained[w][i])]_vars

C38_Witness ==
    \E w \in Workers :
        /\ pc[w] = "ret_ok"
        /\ ~justFinish[w] /\ iter[w] < maxIter[w]
        /\ llmCalls[w] = 1 /\ batches[w] = 0
        /\ pendq # <<>>

\* C39: in an iteration with tool calls the calls are taken one at a time in
\* the order of the response; after the first n of them the handlers invoked
\* and the tool messages collected are those of the non-finish calls among
\* the n, in that order, each message with its call's tool_call_id, and a
\* finish call only sets just_finish; the collected messages join the history
\* only when every call has been taken.
C39_OneToolMessagePerCall ==
    /\ [](\A w \in Workers : pc[w] = "dispatch" =>
            LET taken == 1 .. disp[w]
                ids == SelectSeq([i \in taken |-> i],
                                 LAMBDA i : resp[w][i] # "finish")
            IN  /\ disp[w] <= Len(resp[w])
                /\ toolResponse[w] = ids
                /\ invoked[w] = ids
                /\ justFinish[w] <=> \E i \in taken : resp[w][i] = "finish")
    /\ [][\A w \in Workers : pc[w] = "dispatch" =>
            /\ pc'[w] = "dispatch" =>
                  /\ resp'[w] = resp[w]
                  /\ disp'[w] \in {disp[w], disp[w] + 1}
            /\ pc'[w] = "mid_drain" =>
                  /\ disp[w] = Len(resp[w])
                  /\ justFinish'[w] = justFinish[w]]_vars

C39_Witness ==
    \E w \in Workers :
        /\ pc[w] = "dispatch"
        /\ resp[w] = <<"finish", "str_replace_skill_file">>
        /\ disp[w] = 2
        /\ toolResponse[w] = <<2>> /\ invoked[w] = <<2>>
        /\ justFinish[w]

\* C40: has_reported_thinking starts false and never goes back to false
\* within a run: the ctx of an iteration is created with the flag as the
\* iterations before left it, a handler can only set it, and the flag of the
\* ctx is what the next iteration starts from, also when contexts were
\* injected in between.
C40_ThinkingFlagMonotone ==
    /\ [](\A w \in Workers :
            /\ pc[w] = "entry_drain" => ~hasReportedThinking[w]
            /\ pc[w] = "dispatch" =>
                  (hasReportedThinking[w] => ctxThinking[w]))
    /\ [][\A w \in Workers :
            /\ (pc[w] = "llm" /\ pc'[w] = "dispatch") =>
                  ctxThinking'[w] = hasReportedThinking[w]
            /\ (pc[w] = "dispatch" /\ pc'[w] = "dispatch") =>
                  (ctxThinking[w] => ctxThinking'[w])
            /\ (pc[w] = "dispatch" /\ pc'[w] = "mid_drain") =>
                  hasReportedThinking'[w] = ctxThinking[w]
            /\ (pc[w] \in {"llm", "dispatch", "mid_drain", "renew"}
                  /\ pc'[w] \in {"llm", "dispatch", "mid_drain", "renew"}) =>
                  (hasReportedThinking[w] => hasReportedThinking'[w])]_vars

C40_Witness ==
    \E w \in Workers :
        /\ pc[w] = "dispatch"
        /\ disp[w] = 0
        /\ resp[w] = <<"str_replace_skill_file">>
        /\ ctxThinking[w]
        /\ batches[w] >= 1

\* C17: worker A holds the lock and runs for context 1, worker B was denied
\* and has parked context 2; once A has finished successfully, context 2 is
\* processed by a run and its session becomes completed.  Stated on the
\* states where nothing can happen any more, in behaviours without crash or
\* timeout: if context 1 was consumed, context 2 was consumed too and its
\* session is completed.
C17_ParkedContextCompleted ==
    (Quiet /\ faults = 0 /\ succ[1] >= 1)
        => (succ[2] >= 1 /\ status[SessionOf(2)] = "completed")

\* C18: while a run is in progress and its handler has not released the lock,
\* the lock key is present.
C18_KeyPresentDuringRun ==
    \A w \in Workers : (holds[w] /\ pc[w] \in RunPcs) => lock > 0

=============================================================================
